---- MODULE Spec2Model ----
(***************************************************************************)
(* A model of the span resolution engine of s2orc-doc2json: the paragraph  *)
(* processing of the TEI (Grobid), LaTeX-XML and JATS converters, the      *)
(* Paper load / release round trip and the Grobid client.                  *)
(*                                                                         *)
(* Text is a sequence of characters; a character is a one-element string   *)
(* (the en dash is the atom "ENDASH").  Offsets are 0-based and slices are *)
(* half open, as in Python.                                                *)
(***************************************************************************)
EXTENDS Integers, Sequences, FiniteSets, TLC

(***************************************************************************)
(* Bounds of the model.                                                    *)
(***************************************************************************)
\* the largest number of markup elements in one paragraph
MaxEls == 2

\* the largest number of paragraphs in the body of a paper
MaxParagraphs == 1

\* the largest number of serializations of the papers loaded from one dict object
MaxOutputs == 2

\* the largest number of PDF files in a batch
MaxFiles == 2

\* the largest number of requests posted for one file
MaxRequests == 3

(***************************************************************************)
(* Strings.                                                                *)
(***************************************************************************)
None == "None"

DigitChars == <<"0", "1", "2", "3", "4", "5", "6", "7", "8", "9">>

IsDigit(c) == \E i \in 1..10 : DigitChars[i] = c

DigitVal(c) == (CHOOSE i \in 1..10 : DigitChars[i] = c) - 1

IsSpace(c) == c \in {" ", "\n", "\t"}

Min(a, b) == IF a < b THEN a ELSE b

\* Python t[s:e] for 0 <= s
Slice(t, s, e) == SubSeq(t, s + 1, Min(e, Len(t)))

\* Python t[s:]
From(t, s) == SubSeq(t, s + 1, Len(t))

StartsWith(t, p) == Len(p) <= Len(t) /\ SubSeq(t, 1, Len(p)) = p

\* str(n) for n >= 0
RECURSIVE DigitStr(_)
DigitStr(n) ==
    IF n < 10 THEN <<DigitChars[n + 1]>>
    ELSE DigitStr(n \div 10) \o <<DigitChars[(n % 10) + 1]>>

\* int(t) for a non-empty string of digits
RECURSIVE ToInt(_)
ToInt(t) ==
    IF Len(t) = 0 THEN 0
    ELSE 10 * ToInt(SubSeq(t, 1, Len(t) - 1)) + DigitVal(t[Len(t)])

\* the number of leading digits of t
RECURSIVE DigitRun(_)
DigitRun(t) ==
    IF Len(t) > 0 /\ IsDigit(t[1]) THEN 1 + DigitRun(Tail(t)) ELSE 0

\* int(t) returns: t is a non-empty string of digits (int raises ValueError otherwise)
IsNumeral(t) == Len(t) > 0 /\ DigitRun(t) = Len(t)

RECURSIVE LStrip(_)
LStrip(t) == IF Len(t) > 0 /\ IsSpace(t[1]) THEN LStrip(Tail(t)) ELSE t

RECURSIVE RStrip(_)
RStrip(t) ==
    IF Len(t) > 0 /\ IsSpace(t[Len(t)]) THEN RStrip(SubSeq(t, 1, Len(t) - 1)) ELSE t

\* str.strip()
Strip(t) == RStrip(LStrip(t))

\* re.sub(r'\s+', ' ', t) followed by re.sub(r'\s', ' ', t)
RECURSIVE CollapseSpaces(_)
CollapseSpaces(t) ==
    IF Len(t) = 0 THEN <<>>
    ELSE IF IsSpace(t[1]) THEN <<" ">> \o CollapseSpaces(LStrip(t))
    ELSE <<t[1]>> \o CollapseSpaces(Tail(t))

LowerChars == <<"a", "b", "c", "d", "e", "f", "g", "h", "i", "j", "k", "l", "m",
                "n", "o", "p", "q", "r", "s", "t", "u", "v", "w", "x", "y", "z">>
UpperChars == <<"A", "B", "C", "D", "E", "F", "G", "H", "I", "J", "K", "L", "M",
                "N", "O", "P", "Q", "R", "S", "T", "U", "V", "W", "X", "Y", "Z">>

UpperChar(c) ==
    IF \E i \in 1..26 : LowerChars[i] = c
    THEN UpperChars[CHOOSE i \in 1..26 : LowerChars[i] = c]
    ELSE c

\* str.upper()
Upper(t) == [i \in 1..Len(t) |-> UpperChar(t[i])]

\* str.replace(old, new), every occurrence, left to right
RECURSIVE Replace(_, _, _)
Replace(t, old, new) ==
    IF Len(t) = 0 THEN <<>>
    ELSE IF StartsWith(t, old) THEN new \o Replace(From(t, Len(old)), old, new)
    ELSE <<t[1]>> \o Replace(Tail(t), old, new)

\* "".join(parts)
RECURSIVE Join(_)
Join(parts) == IF Len(parts) = 0 THEN <<>> ELSE Head(parts) \o Join(Tail(parts))

\* a variant that stops at the first match (re.search for re.finditer)
RECURSIVE FindFirstToken(_, _, _)
FindFirstToken(t, prefix, i) ==
    IF i >= Len(t) THEN <<>>
    ELSE IF StartsWith(From(t, i), prefix) /\ DigitRun(From(t, i + Len(prefix))) > 0
    THEN <<<<i, i + Len(prefix) + DigitRun(From(t, i + Len(prefix)))>>>>
    ELSE FindFirstToken(t, prefix, i + 1)

\* re.finditer(prefix + r'\d+', t): the <<start, end>> of every match, from offset i
RECURSIVE FindTokens(_, _, _)
FindTokens(t, prefix, i) ==
    IF i >= Len(t) THEN <<>>
    ELSE LET rest == From(t, i)
             n    == IF StartsWith(rest, prefix)
                     THEN DigitRun(From(rest, Len(prefix))) ELSE 0
         IN  IF n > 0
             THEN <<<<i, i + Len(prefix) + n>>>> \o FindTokens(t, prefix, i + Len(prefix) + n)
             ELSE FindTokens(t, prefix, i + 1)

\* list.sort(key=lambda x: x.start): a stable insertion sort
RECURSIVE InsertByStart(_, _)
InsertByStart(sorted, x) ==
    IF Len(sorted) = 0 THEN <<x>>
    ELSE IF sorted[Len(sorted)].start <= x.start THEN Append(sorted, x)
    ELSE Append(InsertByStart(SubSeq(sorted, 1, Len(sorted) - 1), x), sorted[Len(sorted)])

RECURSIVE SortByStart(_)
SortByStart(s) ==
    IF Len(s) = 0 THEN <<>>
    ELSE InsertByStart(SortByStart(SubSeq(s, 1, Len(s) - 1)), s[Len(s)])

(***************************************************************************)
(* The span reindexing / substitution engine (refspan_util.py).  A span is *)
(* [start, end, token, surface]: text[start:end] is the placeholder token  *)
(* and surface replaces it.                                                *)
(***************************************************************************)
\* the inner loop of replace_refspans: shift or invalidate the spans after entry i
RECURSIVE ShiftFollowing(_, _, _, _, _, _, _)
ShiftFollowing(spans, ind, end, shift_amount, pre_padding, post_padding, btwn_padding) ==
    IF ind > Len(spans) THEN spans
    ELSE LET next == spans[ind]
             new  == IF next.end <= 0 THEN next
                     ELSE IF next.start < end
                     THEN [next EXCEPT !.start = 0, !.end = 0, !.surface = <<>>]
                     ELSE IF next.start = end
                     THEN [next EXCEPT !.start = @ + shift_amount,
                                       !.end = @ + shift_amount,
                                       !.surface = btwn_padding \o pre_padding \o @ \o post_padding]
                     ELSE [next EXCEPT !.start = @ + shift_amount,
                                       !.end = @ + shift_amount,
                                       !.surface = pre_padding \o @ \o post_padding]
         IN  ShiftFollowing([spans EXCEPT ![ind] = new], ind + 1, end, shift_amount,
                            pre_padding, post_padding, btwn_padding)

\* the outer loop of replace_refspans
RECURSIVE ShiftSpans(_, _, _, _, _)
ShiftSpans(spans, i, pre_padding, post_padding, btwn_padding) ==
    IF i > Len(spans) THEN spans
    ELSE LET entry == spans[i]
             shift_amount == Len(entry.surface) - Len(entry.token)
                             + Len(pre_padding) + Len(post_padding)
         IN  IF entry.end <= 0
             THEN ShiftSpans(spans, i + 1, pre_padding, post_padding, btwn_padding)
             ELSE ShiftSpans(ShiftFollowing(spans, i + 1, entry.end, shift_amount,
                                            pre_padding, post_padding, btwn_padding),
                             i + 1, pre_padding, post_padding, btwn_padding)

\* "apply shifts in series": [ok, text]; ok is FALSE when the assertion fails
RECURSIVE ApplyInSeries(_, _)
ApplyInSeries(spans, full_string) ==
    IF Len(spans) = 0 THEN [ok |-> TRUE, text |-> full_string]
    ELSE LET e == Head(spans)
         IN  IF e.start < 0 \/ Slice(full_string, e.start, e.end) # e.token
             THEN [ok |-> FALSE, text |-> full_string]
             ELSE ApplyInSeries(Tail(spans),
                                Slice(full_string, 0, e.start) \o e.surface
                                    \o From(full_string, e.end))

PositiveEnd(e) == e.end > 0

SpansMatchText(spans, full_string) ==
    \A i \in 1..Len(spans) :
        Slice(full_string, spans[i].start, spans[i].end) = spans[i].token

DistinctStarts(spans) ==
    \A i, j \in 1..Len(spans) : i # j => spans[i].start # spans[j].start

replace_refspans(spans_to_replace, full_string, pre_padding, post_padding, btwn_padding) ==
    IF ~SpansMatchText(spans_to_replace, full_string) \/ ~DistinctStarts(spans_to_replace)
    THEN [ok |-> FALSE, text |-> full_string]
    ELSE LET shifted == ShiftSpans(SortByStart(spans_to_replace), 1,
                                   pre_padding, post_padding, btwn_padding)
             kept    == SortByStart(SelectSeq(shifted, PositiveEnd))
         IN  ApplyInSeries(kept, full_string)

\* offsets that are never propagated to the spans that follow
OffsetBeforeNone(spans, i) == 0

\* the offset accumulated in front of span i: the sum of the length changes before it
RECURSIVE OffsetBefore(_, _)
OffsetBefore(spans, i) ==
    IF i <= 1 THEN 0
    ELSE OffsetBefore(spans, i - 1)
         + (spans[i - 1].start + Len(spans[i - 1].surface) - spans[i - 1].end)

NewSpan(spans, i) ==
    LET e      == spans[i]
        offset == OffsetBefore(spans, i)
    IN  [e EXCEPT !.start = e.start + offset,
                  !.end = e.start + Len(e.surface) + offset]

\* [ok, text, spans]; ok is FALSE when an assertion fails
sub_spans_and_update_indices(spans_to_replace, full_string) ==
    IF ~SpansMatchText(spans_to_replace, full_string) \/ ~DistinctStarts(spans_to_replace)
    THEN [ok |-> FALSE, text |-> full_string, spans |-> <<>>]
    ELSE LET sorted   == SortByStart(spans_to_replace)
             replaced == replace_refspans(sorted, full_string, <<>>, <<>>, <<>>)
         IN  [ok    |-> replaced.ok,
              text  |-> replaced.text,
              spans |-> [i \in 1..Len(sorted) |-> NewSpan(sorted, i)]]

(***************************************************************************)
(* Document trees.  A paragraph element is the sequence of its children;   *)
(* a child is a text node (name "") or an element.  id is the identity of  *)
(* an element of the input (0 for a text node and for every string the     *)
(* passes create); target = <<>> is an absent attribute.                   *)
(***************************************************************************)
\* Python's None where a string is expected (a character no text contains)
NoneVal == <<"None">>

NavigableString(t) ==
    [name |-> "", type |-> "", target |-> <<>>, text |-> t, id |-> 0,
     latex |-> <<>>, mathml |-> <<>>]

IsString(node) == node.name = ""

\* el.text: the text of every node below el, in document order
RECURSIVE ElText(_)
ElText(tree) == IF Len(tree) = 0 THEN <<>> ELSE Head(tree).text \o ElText(Tail(tree))

\* el.find_all(name): the identities of the elements called name, in document order
RECURSIVE FindAll(_, _)
FindAll(tree, name) ==
    IF Len(tree) = 0 THEN <<>>
    ELSE (IF Head(tree).name = name THEN <<Head(tree).id>> ELSE <<>>)
         \o FindAll(Tail(tree), name)

\* where element id is in the tree
Pos(tree, id) == CHOOSE i \in 1..Len(tree) : tree[i].id = id

\* tag.replace_with(sp.new_string(t))
ReplaceWith(tree, p, t) == [tree EXCEPT ![p] = NavigableString(t)]

\* tag.decompose()
Decompose(tree, p) == SubSeq(tree, 1, p - 1) \o SubSeq(tree, p + 1, Len(tree))

(***************************************************************************)
(* citation_util.py                                                        *)
(***************************************************************************)
BRACKET_STYLE_THRESHOLD == 5

EXPANSION_CHARS == {"-", "ENDASH"}

\* a variant that knows the en dash only
is_expansion_string_endash_only(between_string) ==
    /\ Len(between_string) <= 2
    /\ \E i \in 1..Len(between_string) : between_string[i] = "ENDASH"
    /\ \A i \in 1..Len(between_string) : between_string[i] \in {"ENDASH", " "}

is_expansion_string(between_string) ==
    /\ Len(between_string) <= 2
    /\ \E i \in 1..Len(between_string) : between_string[i] \in EXPANSION_CHARS
    /\ \A i \in 1..Len(between_string) : between_string[i] \in EXPANSION_CHARS \cup {" "}

\* SINGLE_BRACKET_REGEX.match(t): [ok, num] for r'\[([1-9]\d{0,2})\]' at the start of t
SingleBracketMatch(t) ==
    LET n == IF Len(t) > 0 /\ t[1] = "[" THEN DigitRun(Tail(t)) ELSE 0
    IN  IF n >= 1 /\ n <= 3 /\ t[2] # "0" /\ Len(t) >= n + 2 /\ t[n + 2] = "]"
        THEN [ok |-> TRUE, num |-> ToInt(SubSeq(t, 2, n + 1))]
        ELSE [ok |-> FALSE, num |-> 0]

(***************************************************************************)
(* tei_to_json.py: the token substitution pass of one paragraph            *)
(***************************************************************************)
BIBREF == <<"B", "I", "B", "R", "E", "F">>
TABREF == <<"T", "A", "B", "R", "E", "F">>
FIGREF == <<"F", "I", "G", "R", "E", "F">>
EQREF == <<"E", "Q", "R", "E", "F">>
CITETOKEN == <<"C", "I", "T", "E", "T", "O", "K", "E", "N">>
REFTOKEN == <<"R", "E", "F", "T", "O", "K", "E", "N">>

normalize_grobid_id(grobid_id) ==
    LET str_norm == Replace(Replace(Upper(grobid_id), <<"_">>, <<>>), <<"#">>, <<>>)
    IN  IF StartsWith(str_norm, <<"B">>) THEN Replace(str_norm, <<"B">>, BIBREF)
        ELSE IF StartsWith(str_norm, <<"T", "A", "B">>)
        THEN Replace(str_norm, <<"T", "A", "B">>, TABREF)
        ELSE IF StartsWith(str_norm, <<"F", "I", "G">>)
        THEN Replace(str_norm, <<"F", "I", "G">>, FIGREF)
        ELSE IF StartsWith(str_norm, <<"F", "O", "R", "M", "U", "L", "A">>)
        THEN Replace(str_norm, <<"F", "O", "R", "M", "U", "L", "A">>, EQREF)
        ELSE str_norm

\* a generator whose counter never advances
UniqTokenStuck(tok_string, ind) == tok_string \o <<"0">>

\* UniqTokenGenerator.next(): the token for counter value ind
UniqToken(tok_string, ind) == tok_string \o DigitStr(ind)

Pad(t) == <<" ">> \o t \o <<" ">>

\* One pass of the loop of process_references_in_paragraph, for element id.
\* st = [tree, map, ind]; a map entry is [token, ref_id, surface, type, el] where
\* el records the element the token stands for.
ReferenceStep(st, id, refs) ==
    LET p    == Pos(st.tree, id)
        rtag == st.tree[p]
    IN  IF rtag.type = "bibr" THEN st
        ELSE IF rtag.type \in {"table", "figure"}
        THEN LET rtag_string ==
                     IF rtag.target # <<>> /\ normalize_grobid_id(rtag.target) \in refs
                     THEN normalize_grobid_id(rtag.target) ELSE NoneVal
                 ref_key == UniqToken(REFTOKEN, st.ind)
             IN  [tree |-> ReplaceWith(st.tree, p, Pad(ref_key)),
                  map  |-> Append(st.map, [token |-> ref_key, ref_id |-> rtag_string,
                                           surface |-> Strip(rtag.text),
                                           type |-> rtag.type, el |-> id]),
                  ind  |-> st.ind + 1]
        ELSE [st EXCEPT !.tree = ReplaceWith(st.tree, p, Strip(rtag.text))]

RECURSIVE ReferenceLoop(_, _, _)
ReferenceLoop(st, ids, refs) ==
    IF Len(ids) = 0 THEN st
    ELSE ReferenceLoop(ReferenceStep(st, Head(ids), refs), Tail(ids), refs)

process_references_in_paragraph(para_el, refs) ==
    ReferenceLoop([tree |-> para_el, map |-> <<>>, ind |-> 0], FindAll(para_el, "ref"), refs)

\* _get_surface_range: [ok, lo, hi]
get_surface_range(start_surface, end_surface) ==
    LET span1_match == SingleBracketMatch(start_surface)
        span2_match == SingleBracketMatch(end_surface)
    IN  IF span1_match.ok /\ span2_match.ok
           /\ 1 < span2_match.num - span1_match.num
           /\ span2_match.num - span1_match.num < 20
        THEN [ok |-> TRUE, lo |-> span1_match.num, hi |-> span2_match.num]
        ELSE [ok |-> FALSE, lo |-> 0, hi |-> 0]

\* the text between the element at p and the element before it
\* (for sib in rtag.previous_siblings: stop at a ref and at any other tag)
RECURSIVE BackwardBetween(_, _)
BackwardBetween(tree, p) ==
    IF p <= 1 \/ ~IsString(tree[p - 1]) THEN <<>>
    ELSE tree[p - 1].text \o BackwardBetween(tree, p - 1)

\* the same, over rtag.next_siblings
RECURSIVE ForwardBetween(_, _)
ForwardBetween(tree, p) ==
    IF p >= Len(tree) \/ ~IsString(tree[p + 1]) THEN <<>>
    ELSE tree[p + 1].text \o ForwardBetween(tree, p + 1)

\* rtag.find_previous_sibling('ref'): its position, 0 for None
RECURSIVE PreviousRef(_, _)
PreviousRef(tree, p) ==
    IF p <= 1 THEN 0
    ELSE IF tree[p - 1].name = "ref" THEN p - 1
    ELSE PreviousRef(tree, p - 1)

\* sib.replace_with(sp.new_string("")) for the strings in front of p
RECURSIVE BlankBefore(_, _)
BlankBefore(tree, p) ==
    IF p <= 1 \/ ~IsString(tree[p - 1]) THEN tree
    ELSE BlankBefore(ReplaceWith(tree, p - 1, <<>>), p - 1)

\* the placeholder for an element, one token: tag -> " CITETOKENn "
EmitOne(st, p, ref_id, surface, id) ==
    LET cite_key == UniqToken(CITETOKEN, st.ind)
    IN  [tree |-> ReplaceWith(st.tree, p, Pad(cite_key)),
         map  |-> Append(st.map, [token |-> cite_key, ref_id |-> ref_id,
                                  surface |-> surface, type |-> "bibr", el |-> id]),
         ind  |-> st.ind + 1,
         raised |-> st.raised]

\* the expansion loop: one token per pair of zip(id_range, surface_range);
\* acc = [map, ind, replace_string]
RECURSIVE ExpandRange(_, _, _, _, _, _)
ExpandRange(acc, ref_num, end_ref_num, number, end_number, ctx) ==
    IF ref_num > end_ref_num \/ number > end_number THEN acc
    ELSE LET range_ref_id == BIBREF \o DigitStr(ref_num)
             cite_key     == UniqToken(CITETOKEN, acc.ind)
             entry == [token |-> cite_key,
                       ref_id |-> IF range_ref_id \in ctx.bibs THEN range_ref_id ELSE NoneVal,
                       surface |-> <<"[">> \o DigitStr(number) \o <<"]">>,
                       type |-> "bibr", el |-> ctx.el]
         IN  ExpandRange([map |-> Append(acc.map, entry), ind |-> acc.ind + 1,
                          replace_string |-> acc.replace_string \o cite_key \o <<" ">>],
                         ref_num + 1, end_ref_num, number + 1, end_number, ctx)

\* "EXTRA PROCESSING FOR BRACKET STYLE CITATIONS" for the element at p
BracketStep(st, p, id, rtag_ref_id, surface_span, bibs) ==
    IF is_expansion_string(BackwardBetween(st.tree, p))
    THEN LET q == PreviousRef(st.tree, p)
         IN  IF q = 0 THEN st    \* None.text: AttributeError, next element
             ELSE
             LET previous_rtag == st.tree[q]
                 surface_num_range ==
                     get_surface_range(Strip(previous_rtag.text), surface_span)
             IN  IF surface_num_range.ok
                 THEN LET blanked == BlankBefore(st.tree, p)
                      IN  IF previous_rtag.target = <<>>
                          THEN [st EXCEPT !.tree = blanked]    \* AttributeError
                          ELSE
                          IF ~IsNumeral(From(normalize_grobid_id(previous_rtag.target), 6))
                             \/ ~IsNumeral(From(rtag_ref_id, 6))
                          THEN [st EXCEPT !.tree = Decompose(blanked, q),
                                          !.raised = "ValueError"]
                          ELSE
                          LET previous_rtag_ref_id ==
                                  normalize_grobid_id(previous_rtag.target)
                              acc == ExpandRange(
                                  [map |-> st.map, ind |-> st.ind, replace_string |-> <<>>],
                                  ToInt(From(previous_rtag_ref_id, 6)),
                                  ToInt(From(rtag_ref_id, 6)),
                                  surface_num_range.lo, surface_num_range.hi,
                                  [bibs |-> bibs, el |-> id])
                              \* decompose() moves the element at p to p - 1
                              removed == Decompose(blanked, q)
                          IN  [tree |-> ReplaceWith(removed, p - 1, Pad(acc.replace_string)),
                               map  |-> acc.map,
                               ind  |-> acc.ind,
                               raised |-> ""]
                 ELSE IF previous_rtag.target = <<>> THEN st    \* AttributeError
                 ELSE LET prev == EmitOne(st, q, normalize_grobid_id(previous_rtag.target),
                                          Strip(previous_rtag.text), previous_rtag.id)
                      IN  EmitOne(prev, p, rtag_ref_id, surface_span, id)
    ELSE IF is_expansion_string(ForwardBetween(st.tree, p))
    THEN st
    ELSE EmitOne(st, p, rtag_ref_id, surface_span, id)

\* a variant that takes every non-empty surface form for a bracket citation
LooksBracketedAlways(surface_span) == Len(surface_span) > 0

\* "valid bracket span"
LooksBracketed(surface_span) ==
    /\ Len(surface_span) > 0
    /\ \/ surface_span[1] = "["
       \/ surface_span[Len(surface_span)] = "]"
       \/ surface_span[Len(surface_span)] = ","

\* a variant that leaves a citation the bibliography lacks as plain text
CitationStepSkipUnknown(st, id, bibs, bracket) ==
    LET p            == Pos(st.tree, id)
        rtag         == st.tree[p]
        surface_span == Strip(rtag.text)
        rtag_ref_id  == normalize_grobid_id(rtag.target)
    IN  IF st.raised # "" THEN st    \* the exception has left the loop
        ELSE IF rtag.target # <<>>
        THEN IF rtag_ref_id \notin bibs
             THEN [st EXCEPT !.tree = ReplaceWith(st.tree, p, Pad(surface_span))]
             ELSE IF bracket
             THEN IF LooksBracketed(surface_span)
                  THEN BracketStep(st, p, id, rtag_ref_id, surface_span, bibs)
                  ELSE [st EXCEPT !.tree = ReplaceWith(st.tree, p, Pad(surface_span))]
             ELSE EmitOne(st, p, rtag_ref_id, surface_span, id)
        ELSE EmitOne(st, p, NoneVal, surface_span, id)

\* One pass of the loop of process_citations_in_paragraph, for element id
CitationStep(st, id, bibs, bracket) ==
    LET p            == Pos(st.tree, id)
        rtag         == st.tree[p]
        surface_span == Strip(rtag.text)
        rtag_ref_id  == normalize_grobid_id(rtag.target)
    IN  IF st.raised # "" THEN st    \* the exception has left the loop
        ELSE IF rtag.target # <<>>
        THEN IF rtag_ref_id \notin bibs
             THEN EmitOne(st, p, NoneVal, surface_span, id)
             ELSE IF bracket
             THEN IF LooksBracketed(surface_span)
                  THEN BracketStep(st, p, id, rtag_ref_id, surface_span, bibs)
                  ELSE [st EXCEPT !.tree = ReplaceWith(st.tree, p, Pad(surface_span))]
             ELSE EmitOne(st, p, rtag_ref_id, surface_span, id)
        ELSE EmitOne(st, p, NoneVal, surface_span, id)

\* the elements of ids still in the tree are visited in order; one that an earlier
\* pass removed or replaced lies before the current one and is never visited again
RECURSIVE CitationLoop(_, _, _, _)
CitationLoop(st, ids, bibs, bracket) ==
    IF Len(ids) = 0 THEN st
    ELSE CitationLoop(CitationStep(st, Head(ids), bibs, bracket), Tail(ids), bibs, bracket)

process_citations_in_paragraph(para_el, bibs, bracket) ==
    CitationLoop([tree |-> para_el, map |-> <<>>, ind |-> 0, raised |-> ""],
                 FindAll(para_el, "ref"), bibs, bracket)

\* token in map / map[token], for a map kept as the sequence of its entries
HasKey(map, token) == \E i \in 1..Len(map) : map[i].token = token

Lookup(map, token) == map[CHOOSE i \in 1..Len(map) : map[i].token = token]

\* the spans to replace for every match of a token pattern: (start, end, token, surface)
TokenSpans(para_text, matches, map) ==
    [i \in 1..Len(matches) |->
        LET uniq_token == Slice(para_text, matches[i][1], matches[i][2])
        IN  [start |-> matches[i][1], end |-> matches[i][1] + Len(uniq_token),
             token |-> uniq_token, surface |-> Lookup(map, uniq_token).surface]]

AllKnown(para_text, matches, map) ==
    \A i \in 1..Len(matches) : HasKey(map, Slice(para_text, matches[i][1], matches[i][2]))

\* the json blob of a replaced span
SpanBlob(span, map) ==
    [start |-> span.start, end |-> span.end, text |-> span.surface,
     ref_id |-> Lookup(map, span.token).ref_id]

IsCiteSpan(span) == StartsWith(span.token, CITETOKEN)

IsRefSpan(span) == StartsWith(span.token, REFTOKEN)

BlobsAlign(para_text, blobs) ==
    \A i \in 1..Len(blobs) : Slice(para_text, blobs[i].start, blobs[i].end) = blobs[i].text

EmptyParagraph ==
    [text |-> <<>>, cite_spans |-> <<>>, ref_spans |-> <<>>, eq_spans |-> <<>>]

\* what a call leaves behind: raised is the exception that escaped ("" for none),
\* paragraph the value returned, and cite_map, ref_map, token_text the side tables
\* and the linearized text the call went through
Outcome(raised, paragraph, cite_map, ref_map, token_text) ==
    [raised |-> raised, paragraph |-> paragraph, cite_map |-> cite_map,
     ref_map |-> ref_map, token_text |-> token_text]

\* the json blobs of the replaced citation spans
CiteBlobs(spans, cite_map) ==
    [i \in 1..Len(SelectSeq(spans, IsCiteSpan)) |->
        SpanBlob(SelectSeq(spans, IsCiteSpan)[i], cite_map)]

\* the json blobs of the replaced reference spans
RefBlobs(spans, ref_map) ==
    [i \in 1..Len(SelectSeq(spans, IsRefSpan)) |->
        SpanBlob(SelectSeq(spans, IsRefSpan)[i], ref_map)]

\* process_paragraph from the json blobs to the return
TeiReturn(subbed_ok, para_text, cite_span_blobs, ref_span_blobs, cite_map, ref_map, token_text) ==
    IF ~subbed_ok
       \/ ~BlobsAlign(para_text, cite_span_blobs)
       \/ ~BlobsAlign(para_text, ref_span_blobs)
    THEN Outcome("AssertionError", EmptyParagraph, cite_map, ref_map, token_text)
    ELSE Outcome("", [text |-> para_text, cite_spans |-> cite_span_blobs,
                      ref_spans |-> ref_span_blobs, eq_spans |-> <<>>],
                 cite_map, ref_map, token_text)

\* process_paragraph from the substitution on
TeiBlobs(subbed, cite_map, ref_map, token_text) ==
    TeiReturn(subbed.ok, subbed.text,
              CiteBlobs(subbed.spans, cite_map),
              RefBlobs(subbed.spans, ref_map),
              cite_map, ref_map, token_text)

\* process_paragraph from the token discovery on
TeiSubstitute(cite_map, ref_map, para_text, cite_matches, ref_matches) ==
    IF ~AllKnown(para_text, cite_matches, cite_map)
       \/ ~AllKnown(para_text, ref_matches, ref_map)
    THEN Outcome("KeyError", EmptyParagraph, cite_map, ref_map, para_text)
    ELSE TeiBlobs(sub_spans_and_update_indices(
                      TokenSpans(para_text, cite_matches, cite_map)
                          \o TokenSpans(para_text, ref_matches, ref_map),
                      para_text),
                  cite_map, ref_map, para_text)

\* process_paragraph from the linearized text on
TeiLinearized(cite_map, ref_map, para_text) ==
    TeiSubstitute(cite_map, ref_map, para_text,
                  FindTokens(para_text, CITETOKEN, 0), FindTokens(para_text, REFTOKEN, 0))

\* process_paragraph after the two substitution passes
TeiAfterPasses(ref_map, cites) ==
    IF cites.raised # ""
    THEN Outcome(cites.raised, EmptyParagraph, cites.map, ref_map, <<>>)
    ELSE TeiLinearized(cites.map, ref_map, CollapseSpaces(ElText(cites.tree)))

TeiAfterReferences(refs, bib_dict, bracket) ==
    TeiAfterPasses(refs.map, process_citations_in_paragraph(refs.tree, bib_dict, bracket))

\* tei_to_json.process_paragraph (a paragraph without formula children)
tei_process_paragraph(para_el, bib_dict, ref_dict, bracket) ==
    IF ElText(para_el) = <<>>
    THEN Outcome("", EmptyParagraph, <<>>, <<>>, <<>>)
    ELSE TeiAfterReferences(process_references_in_paragraph(para_el, ref_dict),
                            bib_dict, bracket)

(***************************************************************************)
(* tex2json/xml_to_json.py: one paragraph of a LaTeX-XML document.  A <cit> *)
(* node carries the target of its <ref> child; a <formula> node carries    *)
(* its id in target, the text of <math> in text, the text of <texmath> in  *)
(* latex, and in mathml what latex2mathml makes of it (<<>> when it        *)
(* raises).                                                                *)
(***************************************************************************)
FOOTREF == <<"F", "O", "O", "T", "R", "E", "F">>
SECREF == <<"S", "E", "C", "R", "E", "F">>
SECREFU == <<"S", "E", "C", "R", "E", "F", "U">>
INLINEFORM == <<"I", "N", "L", "I", "N", "E", "F", "O", "R", "M">>
DISPLAYFORM == <<"D", "I", "S", "P", "L", "A", "Y", "F", "O", "R", "M">>
bid == <<"b", "i", "d">>
cid == <<"c", "i", "d">>
uid == <<"u", "i", "d">>

\* "replace all citations with cite keyword", for one node
ReplaceCit(node) ==
    IF node.name = "cit" /\ node.target # <<>>
    THEN NavigableString(Pad(Replace(node.target, bid, BIBREF)))
    ELSE node

\* the token of a uid target: the first family under which ref_map registers it
UidTarget(target, ref_map) ==
    IF HasKey(ref_map, Replace(target, uid, FIGREF)) THEN Replace(target, uid, FIGREF)
    ELSE IF HasKey(ref_map, Replace(target, uid, TABREF)) THEN Replace(target, uid, TABREF)
    ELSE IF HasKey(ref_map, Replace(target, uid, EQREF)) THEN Replace(target, uid, EQREF)
    ELSE IF HasKey(ref_map, Replace(target, uid, FOOTREF)) THEN Replace(target, uid, FOOTREF)
    ELSE IF HasKey(ref_map, Replace(target, uid, SECREFU)) THEN Replace(target, uid, SECREFU)
    ELSE Upper(target)

\* "replace all non citation references", for one node
ReplaceRef(node, ref_map) ==
    IF node.name = "ref" /\ node.target # <<>> /\ ~StartsWith(node.target, bid)
    THEN NavigableString(Pad(
             IF StartsWith(node.target, cid) THEN Replace(node.target, cid, SECREF)
             ELSE IF StartsWith(node.target, uid) THEN UidTarget(node.target, ref_map)
             ELSE Upper(node.target)))
    ELSE node

replace_ref_tokens(el, ref_map) ==
    [i \in 1..Len(el) |-> ReplaceRef(ReplaceCit(el[i]), ref_map)]

\* One pass of the formula loop of process_paragraph, for element id;
\* st = [tree, dict, inline_key_ind, display_key_ind]
FormulaStep(st, id) ==
    IF st.tree[Pos(st.tree, id)].target # <<>>
    THEN [tree |-> ReplaceWith(st.tree, Pos(st.tree, id),
                               Pad(DISPLAYFORM \o DigitStr(st.display_key_ind))),
          dict |-> Append(st.dict,
                          [token  |-> DISPLAYFORM \o DigitStr(st.display_key_ind),
                           text   |-> st.tree[Pos(st.tree, id)].text,
                           latex  |-> st.tree[Pos(st.tree, id)].latex,
                           mathml |-> st.tree[Pos(st.tree, id)].mathml,
                           ref_id |-> Replace(st.tree[Pos(st.tree, id)].target, uid, EQREF)]),
          inline_key_ind  |-> st.inline_key_ind,
          display_key_ind |-> st.display_key_ind + 1]
    ELSE [tree |-> ReplaceWith(st.tree, Pos(st.tree, id),
                               Pad(INLINEFORM \o DigitStr(st.inline_key_ind))),
          dict |-> Append(st.dict,
                          [token  |-> INLINEFORM \o DigitStr(st.inline_key_ind),
                           text   |-> st.tree[Pos(st.tree, id)].text,
                           latex  |-> st.tree[Pos(st.tree, id)].latex,
                           mathml |-> st.tree[Pos(st.tree, id)].mathml,
                           ref_id |-> NoneVal]),
          inline_key_ind  |-> st.inline_key_ind + 1,
          display_key_ind |-> st.display_key_ind]

RECURSIVE FormulaLoop(_, _)
FormulaLoop(st, ids) ==
    IF Len(ids) = 0 THEN st ELSE FormulaLoop(FormulaStep(st, Head(ids)), Tail(ids))

\* the spans of one token family: {start, end, text, ref_id}
TexSpans(text, matches, map) ==
    [i \in 1..Len(matches) |->
        [start  |-> matches[i][1],
         end    |-> matches[i][2],
         text   |-> IF HasKey(map, Slice(text, matches[i][1], matches[i][2]))
                    THEN Lookup(map, Slice(text, matches[i][1], matches[i][2])).num
                    ELSE NoneVal,
         ref_id |-> Slice(text, matches[i][1], matches[i][2])]]

\* itertools.chain over the reference token families
TexRefMatches(text) ==
    FindTokens(text, FIGREF, 0) \o FindTokens(text, TABREF, 0)
    \o FindTokens(text, EQREF, 0) \o FindTokens(text, FOOTREF, 0)
    \o FindTokens(text, SECREF, 0) \o FindTokens(text, SECREFU, 0)

\* "get all equation spans": a token that formula_dict lacks is passed over
RECURSIVE TexEqSpans(_, _, _)
TexEqSpans(text, matches, formula_dict) ==
    IF Len(matches) = 0 THEN <<>>
    ELSE (IF HasKey(formula_dict, Slice(text, Head(matches)[1], Head(matches)[2]))
          THEN <<[start  |-> Head(matches)[1],
                  end    |-> Head(matches)[2],
                  text   |-> Lookup(formula_dict,
                                    Slice(text, Head(matches)[1], Head(matches)[2])).text,
                  latex  |-> Lookup(formula_dict,
                                    Slice(text, Head(matches)[1], Head(matches)[2])).latex,
                  mathml |-> Lookup(formula_dict,
                                    Slice(text, Head(matches)[1], Head(matches)[2])).mathml,
                  ref_id |-> Slice(text, Head(matches)[1], Head(matches)[2])]>>
          ELSE <<>>)
         \o TexEqSpans(text, Tail(matches), formula_dict)

\* "assert all align"
AlignRefId(text, spans) ==
    \A i \in 1..Len(spans) : Slice(text, spans[i].start, spans[i].end) = spans[i].ref_id

\* process_paragraph from the span lists to the return
TexReturn(text, all_cite_spans, all_ref_spans, all_eq_spans) ==
    IF ~AlignRefId(text, all_cite_spans) \/ ~AlignRefId(text, all_ref_spans)
    THEN Outcome("AssertionError", EmptyParagraph, <<>>, <<>>, text)
    ELSE Outcome("", [text |-> text, cite_spans |-> all_cite_spans,
                      ref_spans |-> all_ref_spans, eq_spans |-> all_eq_spans],
                 <<>>, <<>>, text)

\* process_paragraph from the linearized text on
TexLinearized(text, formula_dict, bib_map, ref_map) ==
    TexReturn(text,
              TexSpans(text, FindTokens(text, BIBREF, 0), bib_map),
              TexSpans(text, TexRefMatches(text), ref_map),
              TexEqSpans(text,
                         FindTokens(text, INLINEFORM, 0) \o FindTokens(text, DISPLAYFORM, 0),
                         formula_dict))

TexAfterFormulas(st, bib_map, ref_map) ==
    TexLinearized(CollapseSpaces(ElText(st.tree)), st.dict, bib_map, ref_map)

TexAfterTokens(el, bib_map, ref_map) ==
    TexAfterFormulas(FormulaLoop([tree |-> el, dict |-> <<>>,
                                  inline_key_ind |-> 0, display_key_ind |-> 0],
                                 FindAll(el, "formula")),
                     bib_map, ref_map)

\* xml_to_json.process_paragraph (a paragraph without floats and notes)
tex_process_paragraph(el, bib_map, ref_map) ==
    TexAfterTokens(replace_ref_tokens(el, ref_map), bib_map, ref_map)

\* a variant that moves the start of a span and leaves its end
ShiftedSpansStartOnly(spans, n) ==
    [i \in 1..Len(spans) |->
        [start |-> spans[i].start + n, end |-> spans[i].end, text |-> spans[i].text]]

\* the spans process_list_el rebuilds for a numbered item
ShiftedSpans(spans, n) ==
    [i \in 1..Len(spans) |->
        [start |-> spans[i].start + n, end |-> spans[i].end + n, text |-> spans[i].text]]

ShiftedEqSpans(spans, n) ==
    [i \in 1..Len(spans) |->
        [start |-> spans[i].start + n, end |-> spans[i].end + n, text |-> spans[i].text,
         latex |-> spans[i].latex, ref_id |-> spans[i].ref_id]]

\* "append list number if ordered"
NumberedItem(item_as_para, list_num_str) ==
    [text       |-> list_num_str \o item_as_para.text,
     cite_spans |-> ShiftedSpans(item_as_para.cite_spans, Len(list_num_str)),
     ref_spans  |-> ShiftedSpans(item_as_para.ref_spans, Len(list_num_str)),
     eq_spans   |-> ShiftedEqSpans(item_as_para.eq_spans, Len(list_num_str))]

ListItem(processed, list_num) ==
    IF processed.raised = "" /\ list_num # <<>>
    THEN [processed EXCEPT
              !.paragraph = NumberedItem(processed.paragraph, list_num \o <<".", " ">>)]
    ELSE processed

\* "skip itemize settings"
IsItemizeSetting(stripped) ==
    /\ Len(stripped) > 0
    /\ stripped[1] = "["
    /\ stripped[Len(stripped)] = "]"

\* xml_to_json.process_list_el for a list of one item; list_num is its id-text
\* attribute (<<>> when absent); raised is "skipped" when the item is passed over
tex_process_list_el(item, list_num, bib_map, ref_map) ==
    IF IsItemizeSetting(Strip(ElText(item)))
    THEN Outcome("skipped", EmptyParagraph, <<>>, <<>>, <<>>)
    ELSE ListItem(tex_process_paragraph(item, bib_map, ref_map), list_num)

(***************************************************************************)
(* jats2json: one paragraph of a JATS document.  An <xref> node carries    *)
(* rid in target and ref-type in type, both as text (NoneVal: the          *)
(* attribute is absent); an <inline-formula> node carries the text of its  *)
(* mml:math child in text and the markup of that child in mathml.          *)
(***************************************************************************)
XSTART == <<"#", "!", "s", "t", "a", "r", "t", "#">>
XSEP == <<"#", "!", "s", "e", "p", "#">>
XEND == <<"#", "!", "e", "n", "d", "#">>
SUPSTART == <<"@", "!", "s", "t", "a", "r", "t", "@">>
SUPEND == <<"@", "!", "e", "n", "d", "@">>
SUBSTART == <<"&", "!", "s", "t", "a", "r", "t", "&">>
SUBEND == <<"&", "!", "e", "n", "d", "&">>
START_TOKENS == {XSTART, SUPSTART, SUBSTART}
SEP_TOKENS == {XSEP}
END_TOKENS == {XEND, SUPEND, SUBEND}
ALL_TOKENS == START_TOKENS \cup SEP_TOKENS \cup END_TOKENS

\* f"{value}" of an attribute value that may be None
Format(value) == IF value = NoneVal THEN <<"N", "o", "n", "e">> ELSE value

\* replace_xref_with_string_placeholders and
\* replace_sup_sub_tags_with_string_placeholders, for one node
Placeholder(node) ==
    IF node.name = "xref"
    THEN NavigableString(XSTART \o node.text \o XSEP \o Format(node.target)
                         \o XSEP \o Format(node.type) \o XEND)
    ELSE IF node.name = "sup" THEN NavigableString(SUPSTART \o node.text \o SUPEND)
    ELSE IF node.name = "sub" THEN NavigableString(SUBSTART \o node.text \o SUBEND)
    ELSE node

replace_xref_with_string_placeholders(soup_tag) ==
    [i \in 1..Len(soup_tag) |-> Placeholder(soup_tag[i])]

\* One pass of the loop of parse_formulas (replace = True), for element id;
\* st = [tree, dict, eq_ind, raised]
ParseFormulaStep(st, id) ==
    IF st.raised # "" THEN st
    ELSE IF st.tree[Pos(st.tree, id)].mathml = <<>> /\ st.tree[Pos(st.tree, id)].latex # <<>>
    THEN [st EXCEPT !.raised = "NameError"]    \* latex2mathml is not imported
    ELSE [tree |-> ReplaceWith(st.tree, Pos(st.tree, id),
                               Pad(INLINEFORM \o DigitStr(st.eq_ind))),
          dict |-> Append(st.dict,
                          [token  |-> INLINEFORM \o DigitStr(st.eq_ind),
                           text   |-> st.tree[Pos(st.tree, id)].text,
                           latex  |-> st.tree[Pos(st.tree, id)].latex,
                           mathml |-> st.tree[Pos(st.tree, id)].mathml,
                           ref_id |-> st.tree[Pos(st.tree, id)].target]),
          eq_ind |-> st.eq_ind + 1,
          raised |-> ""]

RECURSIVE ParseFormulaLoop(_, _)
ParseFormulaLoop(st, ids) ==
    IF Len(ids) = 0 THEN st
    ELSE ParseFormulaLoop(ParseFormulaStep(st, Head(ids)), Tail(ids))

parse_formulas(para_el) ==
    ParseFormulaLoop([tree |-> para_el, dict |-> <<>>, eq_ind |-> 0, raised |-> ""],
                     FindAll(para_el, "inline-formula"))

\* the least element of a set of offsets (default when there is none)
Least(offsets, default) ==
    IF offsets = {} THEN default
    ELSE CHOOSE i \in offsets : \A j \in offsets : i <= j

\* the offset of the first pair of spaces in t (Len(t) for none)
FirstPair(t) ==
    Least({i \in 0..(Len(t) - 2) : t[i + 1] = " " /\ t[i + 2] = " "}, Len(t))

\* re.sub(r"  ", " ", par_text): every pair of spaces, left to right, becomes one;
\* i is the offset of the first pair in t
RECURSIVE SqueezePairs(_, _)
SqueezePairs(t, i) ==
    IF i >= Len(t) THEN t
    ELSE Slice(t, 0, i) \o <<" ">>
         \o SqueezePairs(From(t, i + 2), FirstPair(From(t, i + 2)))

\* the placeholder marker t starts with (<<>> for none)
MarkerAt(t) ==
    IF \E m \in ALL_TOKENS : StartsWith(t, m)
    THEN CHOOSE m \in ALL_TOKENS : StartsWith(t, m)
    ELSE <<>>

\* the offset of the first placeholder marker in t (Len(t) for none)
NextMarker(t) ==
    Least({i \in 0..(Len(t) - 1) :
               t[i + 1] \in {"#", "@", "&"} /\ MarkerAt(From(t, i)) # <<>>},
          Len(t))

Flush(cur) == IF cur = <<>> THEN <<>> ELSE <<cur>>

\* [tok for tok in re.split(pattern, par_text) if tok]; i is the offset of the
\* first marker in t
RECURSIVE Tokenize(_, _)
Tokenize(t, i) ==
    IF i >= Len(t) THEN Flush(t)
    ELSE Flush(Slice(t, 0, i)) \o <<MarkerAt(From(t, i))>>
         \o Tokenize(From(t, i + Len(MarkerAt(From(t, i)))),
                     NextMarker(From(t, i + Len(MarkerAt(From(t, i))))))

\* an entry of the stack: a token, or the position pushed after a start token
StackToken(tok) == [is_pos |-> FALSE, tok |-> tok, pos |-> 0]

StackPos(pos) == [is_pos |-> TRUE, tok |-> <<>>, pos |-> pos]

\* token.replace('start', 'sep') and end_token.replace('end', 'sep' / 'start')
Marker(family, word) == <<family, "!">> \o word \o <<family>>

\* _reduce_args: [ok, stack, args]; ok is FALSE when the stack runs out (IndexError)
RECURSIVE reduce_args(_, _, _)
reduce_args(stack, end_token, args) ==
    IF Len(stack) = 0 THEN [ok |-> FALSE, stack |-> stack, args |-> args]
    ELSE IF ~stack[Len(stack)].is_pos
            /\ stack[Len(stack)].tok = Marker(end_token[1], <<"s", "t", "a", "r", "t">>)
    THEN [ok |-> TRUE, stack |-> SubSeq(stack, 1, Len(stack) - 1), args |-> args]
    ELSE IF ~stack[Len(stack)].is_pos
            /\ stack[Len(stack)].tok = Marker(end_token[1], <<"s", "e", "p">>)
    THEN reduce_args(SubSeq(stack, 1, Len(stack) - 1), end_token, << <<>> >> \o args)
    ELSE reduce_args(SubSeq(stack, 1, Len(stack) - 1), end_token,
                     << <<stack[Len(stack)]>> \o args[1] >> \o Tail(args))

\* "".join(args[1])
RECURSIVE JoinTokens(_)
JoinTokens(group) ==
    IF Len(group) = 0 THEN <<>> ELSE Head(group).tok \o JoinTokens(Tail(group))

\* args[k] and args[k][0]: the empty list when the group is empty
FirstOf(group) == IF Len(group) = 0 THEN <<>> ELSE group[1].tok

\* _add_spans: the blob of an xref goes to the list its ref_type names
add_spans(st, end_token, start_pos, text, ref_id, ref_type) ==
    IF end_token[1] = "#"
    THEN IF ref_type = <<"b", "i", "b", "r">>
         THEN [st EXCEPT !.cite_spans = Append(@,
                   [start |-> start_pos, end |-> start_pos + Len(text),
                    mention |-> text, ref_id |-> ref_id])]
         ELSE IF ref_type = <<"f", "i", "g">>
         THEN [st EXCEPT !.fig_spans = Append(@,
                   [start |-> start_pos, end |-> start_pos + Len(text),
                    mention |-> text, ref_id |-> ref_id])]
         ELSE IF ref_type = <<"t", "a", "b", "l", "e">>
         THEN [st EXCEPT !.table_spans = Append(@,
                   [start |-> start_pos, end |-> start_pos + Len(text),
                    mention |-> text, ref_id |-> ref_id])]
         ELSE st
    ELSE IF end_token[1] = "@"
    THEN [st EXCEPT !.sup_spans = Append(@,
              [start |-> start_pos, end |-> start_pos + Len(text), mention |-> text])]
    ELSE [st EXCEPT !.sub_spans = Append(@,
              [start |-> start_pos, end |-> start_pos + Len(text), mention |-> text])]

\* the END_TOKENS branch once _reduce_args has returned red
Reduced(st, token, red) ==
    IF ~red.ok \/ Len(red.args[1]) = 0 \/ Len(red.args) < 2
    THEN [st EXCEPT !.raised = "IndexError"]
    ELSE IF Len(red.args) \notin {2, 4}
    THEN [st EXCEPT !.raised = "AssertionError"]
    ELSE add_spans([st EXCEPT !.stack = Append(red.stack,
                                               StackToken(JoinTokens(red.args[2]))),
                              !.disable_count = FALSE],
                   token, red.args[1][1].pos, JoinTokens(red.args[2]),
                   IF Len(red.args) = 2 THEN NoneVal ELSE FirstOf(red.args[3]),
                   IF Len(red.args) = 2 THEN NoneVal ELSE FirstOf(red.args[4]))

\* One pass of the shift-reduce loop of parse_all_paragraphs_in_section
ShiftReduceStep(st, token) ==
    IF st.raised # "" THEN st
    ELSE IF token \in START_TOKENS
    THEN [st EXCEPT !.stack = @ \o <<StackToken(token), StackPos(st.pos),
                                     StackToken(Marker(token[1], <<"s", "e", "p">>))>>]
    ELSE IF token \in SEP_TOKENS
    THEN IF st.stack = <<>> THEN [st EXCEPT !.raised = "AssertionError"]
         ELSE [st EXCEPT !.stack = Append(@, StackToken(token)), !.disable_count = TRUE]
    ELSE IF token \in END_TOKENS
    THEN IF st.stack = <<>> THEN [st EXCEPT !.raised = "AssertionError"]
         ELSE Reduced(st, token, reduce_args(st.stack, token, << <<>> >>))
    ELSE IF st.disable_count
    THEN [st EXCEPT !.stack = Append(@, StackToken(token))]
    ELSE [st EXCEPT !.stack = Append(@, StackToken(token)),
                    !.full_text = @ \o token,
                    !.pos = @ + Len(token)]

RECURSIVE ShiftReduce(_, _)
ShiftReduce(st, tokens) ==
    IF Len(tokens) = 0 THEN st
    ELSE ShiftReduce(ShiftReduceStep(st, Head(tokens)), Tail(tokens))

JatsEqSpans(full_text, formula_dict) ==
    TexEqSpans(full_text,
               FindTokens(full_text, INLINEFORM, 0) \o FindTokens(full_text, DISPLAYFORM, 0),
               formula_dict)

\* old_to_new.get(ref_id)
Remapped(spans, old_to_new) ==
    [i \in 1..Len(spans) |->
        [spans[i] EXCEPT !.ref_id = IF HasKey(old_to_new, @)
                                    THEN Lookup(old_to_new, @).new ELSE NoneVal]]

\* assert span['ref_id']
Truthy(spans) ==
    \A i \in 1..Len(spans) : spans[i].ref_id # <<>> /\ spans[i].ref_id # NoneVal

\* jats_to_json.convert_paragraphs_to_s2orc, for the paragraph blob parsed holds
convert_paragraphs_to_s2orc(parsed, par_text, eq_spans, old_to_new) ==
    IF parsed.raised # ""
    THEN Outcome(parsed.raised, EmptyParagraph, <<>>, <<>>, par_text)
    ELSE IF ~Truthy(parsed.fig_spans \o parsed.table_spans) \/ ~Truthy(parsed.cite_spans)
    THEN Outcome("AssertionError", EmptyParagraph, <<>>, <<>>, par_text)
    ELSE Outcome("", [text       |-> parsed.full_text,
                      cite_spans |-> Remapped(parsed.cite_spans, old_to_new),
                      ref_spans  |-> Remapped(parsed.fig_spans \o parsed.table_spans,
                                              old_to_new),
                      eq_spans   |-> eq_spans],
                 <<>>, <<>>, par_text)

JatsParsed(parsed, par_text, formula_dict, old_to_new) ==
    convert_paragraphs_to_s2orc(parsed, par_text,
                                JatsEqSpans(parsed.full_text, formula_dict), old_to_new)

\* parse_all_paragraphs_in_section from the placeholder text on
JatsTokens(par_text, formula_dict, old_to_new) ==
    JatsParsed(ShiftReduce([stack |-> <<>>, full_text |-> <<>>, pos |-> 0,
                            disable_count |-> FALSE, raised |-> "",
                            cite_spans |-> <<>>, fig_spans |-> <<>>, table_spans |-> <<>>,
                            sup_spans |-> <<>>, sub_spans |-> <<>>],
                           Tokenize(par_text, NextMarker(par_text))),
               par_text, formula_dict, old_to_new)

JatsAfterFormulas(formulas, old_to_new) ==
    IF formulas.raised # ""
    THEN Outcome(formulas.raised, EmptyParagraph, <<>>, <<>>, <<>>)
    ELSE JatsTokens(SqueezePairs(ElText(formulas.tree), FirstPair(ElText(formulas.tree))),
                    formulas.dict, old_to_new)

\* all_tag_utils.parse_all_paragraphs_in_section for one <p>, after the xref
\* placeholders are in, followed by convert_paragraphs_to_s2orc
jats_process_paragraph(par_tag, old_to_new) ==
    IF \E i \in 1..Len(par_tag) : par_tag[i].name \in {"display-formula", "formula"}
    THEN Outcome("NotImplementedError", EmptyParagraph, <<>>, <<>>, <<>>)
    ELSE JatsAfterFormulas(parse_formulas(replace_xref_with_string_placeholders(par_tag)),
                           old_to_new)

(***************************************************************************)
(* The paragraphs the converters are run on.  A paragraph is a row of      *)
(* markup elements with text between them, between the words "see " and    *)
(* ".".                                                                    *)
(***************************************************************************)
Element(name, type, target, text) ==
    [name |-> name, type |-> type, target |-> target, text |-> text, id |-> 0,
     latex |-> <<>>, mathml |-> <<>>]

\* the <ref> elements Grobid writes into a TEI paragraph (the tenth has blank
\* text, the last a target the bibliography lacks and a surface form without
\* brackets)
TeiRefs == <<
    Element("ref", "bibr", <<"#", "b", "0">>, <<"[", "1", "]">>),
    Element("ref", "bibr", <<"#", "b", "3">>, <<"[", "4", "]">>),
    Element("ref", "bibr", <<"#", "b", "1">>, <<"[", "2", "5", "]">>),
    Element("ref", "bibr", <<"#", "b", "0">>, <<"S", "m">>),
    Element("ref", "bibr", <<"#", "b", "7">>, <<"[", "8", "]">>),
    Element("ref", "bibr", <<>>, <<"[", "2", "]", " ">>),
    Element("ref", "bibr", <<"#", "b", "5">>, <<"[", "6", "]">>),
    Element("ref", "figure", <<"#", "f", "i", "g", "_", "0">>, <<"F", "1">>),
    Element("ref", "figure", <<"#", "f", "i", "g", "_", "9">>, <<"F", "9">>),
    Element("ref", "bibr", <<"#", "b", "2">>, <<" ">>),
    Element("ref", "bibr", <<"#", "b", "9">>, <<"S", "m">>) >>

\* the text between two elements
Gaps == << <<>>, <<"-">>, <<" ", "a", " ">> >>

\* the bibliography registry and the reference registry of the TEI document
TeiBibs == {BIBREF \o <<"0">>, BIBREF \o <<"1">>, BIBREF \o <<"2">>,
            BIBREF \o <<"3">>, BIBREF \o <<"5">>}

TeiFigs == {FIGREF \o <<"0">>}

Formula(target, text, latex, mathml) ==
    [name |-> "formula", type |-> "", target |-> target, text |-> text, id |-> 0,
     latex |-> latex, mathml |-> mathml]

\* the elements of a LaTeX-XML paragraph: citations (the last has a <ref> child
\* without target), references to a figure and to a section, an inline and a
\* display formula
TexEls == <<
    Element("cit", "", <<"b", "i", "d", "0">>, <<>>),
    Element("cit", "", <<"b", "i", "d", "7">>, <<>>),
    Element("ref", "", <<"u", "i", "d", "1">>, <<>>),
    Element("ref", "", <<"c", "i", "d", "2">>, <<>>),
    Formula(<<>>, <<"x">>, <<"\\", "x">>, <<"m", "x">>),
    Formula(<<"u", "i", "d", "3">>, <<"y">>, <<"\\", "y">>, <<>>),
    Element("cit", "", <<>>, <<"?">>) >>

\* the registries of the LaTeX document: key and 'num' of each entry
TexBibMap == << [token |-> BIBREF \o <<"0">>, num |-> <<"1">>] >>

TexRefMap == << [token |-> FIGREF \o <<"1">>, num |-> <<"1">>],
                [token |-> SECREF \o <<"2">>, num |-> <<"2">>],
                [token |-> EQREF \o <<"3">>, num |-> <<"3">>] >>

\* the elements of a JATS paragraph: citations (known, unknown to the id map,
\* without rid), a figure reference, a table reference with an empty rid, an
\* inline formula with MathML, a superscript, and an inline formula that has
\* <tex-math> only, a citation without text (<xref ... />)
JatsEls == <<
    Element("xref", <<"b", "i", "b", "r">>, <<"B", "1">>, <<"[", "1", "]">>),
    Element("xref", <<"b", "i", "b", "r">>, <<"B", "9">>, <<"[", "9", "]">>),
    Element("xref", <<"b", "i", "b", "r">>, NoneVal, <<"[", "2", "]">>),
    Element("xref", <<"f", "i", "g">>, <<"F", "1">>, <<"F", "i", "g">>),
    Element("xref", <<"t", "a", "b", "l", "e">>, <<>>, <<"T", "1">>),
    [name |-> "inline-formula", type |-> "", target |-> NoneVal, text |-> <<"x">>,
     id |-> 0, latex |-> <<>>, mathml |-> <<"m", "x">>],
    Element("sup", "", <<>>, <<"2">>),
    [name |-> "inline-formula", type |-> "", target |-> NoneVal, text |-> <<"y">>,
     id |-> 0, latex |-> <<"\\", "y">>, mathml |-> <<>>],
    Element("xref", <<"b", "i", "b", "r">>, <<"B", "1">>, <<>>) >>

\* old_key_to_new_key of the JATS document
JatsIdMap == << [token |-> <<"B", "1">>, new |-> BIBREF \o <<"0">>],
                [token |-> <<"F", "1">>, new |-> FIGREF \o <<"0">>] >>

\* the children of the paragraph: element i of els is given identity i
RECURSIVE Children(_, _, _, _)
Children(alphabet, els, gaps, i) ==
    IF i > Len(els) THEN <<>>
    ELSE <<[alphabet[els[i]] EXCEPT !.id = i]>>
         \o (IF i < Len(els) /\ Gaps[gaps[i]] # <<>>
             THEN <<NavigableString(Gaps[gaps[i]])>> ELSE <<>>)
         \o Children(alphabet, els, gaps, i + 1)

BuildParagraph(alphabet, els, gaps) ==
    <<NavigableString(<<"s", "e", "e", " ">>)>>
    \o Children(alphabet, els, gaps, 1)
    \o <<NavigableString(<<".">>)>>

Paragraphs(alphabet) ==
    UNION {{BuildParagraph(alphabet, els, gaps) :
                els \in [1..n -> 1..Len(alphabet)], gaps \in [1..(n - 1) -> 1..Len(Gaps)]} :
           n \in 1..MaxEls}

(***************************************************************************)
(* The state: a converter, the paragraph element handed to it and what the *)
(* call produced.                                                          *)
(***************************************************************************)
VARIABLES
    converter,    \* "tei", "tex" or "jats"
    para_el,      \* the paragraph element
    bracket,      \* TEI: the document-level bracket style decision
    enclosing,    \* LaTeX: the element is a paragraph "p" or the "item" of a list
    id_text,      \* LaTeX: the id-text attribute of the item (<<>> when absent)
    returned,     \* has the converter been run
    result,       \* the Outcome of the run
    origin,       \* where the paper comes from: "file", "converter" or "written"
    paper_dict,   \* the dict object handed to load_s2orc (load_s2orc writes to it)
    paper,        \* the Paper object; paper.raised tells how its construction ended
    loads,        \* the number of load_s2orc calls on this dict object
    outputs,      \* what as_json / release_json returned for this dict object
    written,      \* the output that was written to a file and read back as paper_dict
    now,          \* datetime.now()
    config,       \* GrobidClient: self.config
    pdf_files,    \* process_batch: the PDF files of the batch
    file_index,   \* process_batch: the file of the batch being processed (from 1)
    files,        \* the output directory: the names of its .tei.xml files and failed.log
    call,         \* the process_pdf_stream call under way: position, arguments, result
    requests,     \* the requests posted to the service for the file being processed
    slept,        \* the seconds spent in time.sleep
    source,       \* the document handed to a converter: its registries' sources and parts
    doc_step,     \* the statement of the convert function that runs next (from 1)
    bibkey_map,   \* the bibliography registry of the document
    refkey_map,   \* the reference registry (JATS: old_key_to_new_key)
    sections,     \* the parts converted so far: part name -> Outcome
    doc_raised,   \* the exception that ended the conversion ("" for none)
    spans_to_replace,  \* the spans handed to sub_spans_and_update_indices
    full_string,       \* the text handed to sub_spans_and_update_indices
    subbed,       \* what sub_spans_and_update_indices returned
    soup,  \* the TEI document: the node tables of its abstract, body and back
    tei_step,  \* the statement of convert_tei_xml_soup_to_s2orc_json that runs next (from 1)
    is_bracket_style,  \* what check_if_citations_are_bracket_style returned
    entries,  \* abstract_entries, body_entries, back_matter: the paragraphs made so far
    tei_raised, \* the exception that ended the conversion ("" for none)
    given_id,  \* the identifier handed to a normalizer
    normalizer,  \* "grobid" or "latex"
    id_norm, \* what the normalizer returned (None before the call)
    tex_divs,  \* the divs and paragraphs of the LaTeX-XML document
    section_map,  \* the section registry
    sec_step,  \* 1: the registry is to be built, 2: it is built
    seclist,  \* the call of build_section_list
    sec_raised  \* the exception that ended process_sections_from_text

paragraph_vars == <<converter, para_el, bracket, enclosing, id_text, returned, result>>

paper_vars == <<origin, paper_dict, paper, loads, outputs, written, now>>

grobid_vars == <<config, pdf_files, file_index, files, call, requests, slept>>

document_vars == <<source, doc_step, bibkey_map, refkey_map, sections, doc_raised>>

engine_vars == <<spans_to_replace, full_string, subbed>>

tei_vars == <<soup, tei_step, is_bracket_style, entries, tei_raised>>

id_vars == <<given_id, normalizer, id_norm>>

section_vars == <<tex_divs, section_map, sec_step, seclist, sec_raised>>

vars == <<paragraph_vars, paper_vars, grobid_vars, document_vars, engine_vars, tei_vars, id_vars, section_vars>>

NoOutcome == Outcome("", EmptyParagraph, <<>>, <<>>, <<>>)

\* TEI paragraphs whose own text holds a string of the form of a placeholder
\* token: "see CITETOKEN0 and [1].", "see CITETOKEN7 and [1].",
\* "see REFTOKEN0 in F1."
TokenTextParagraphs ==
    { <<NavigableString(<<"s", "e", "e", " ">> \o word \o <<" ", "a", "n", "d", " ">>),
        [TeiRefs[el] EXCEPT !.id = 1],
        NavigableString(<<".">>)>> :
          <<word, el>> \in { <<CITETOKEN \o <<"0">>, 1>>, <<CITETOKEN \o <<"7">>, 1>>,
                             <<REFTOKEN \o <<"0">>, 8>> } }

InitTei ==
    /\ converter = "tei"
    /\ para_el \in Paragraphs(TeiRefs) \cup TokenTextParagraphs
    /\ bracket \in BOOLEAN
    /\ enclosing = "p"
    /\ id_text = <<>>

InitTex ==
    /\ converter = "tex"
    /\ para_el \in Paragraphs(TexEls)
    /\ bracket = FALSE
    /\ \/ enclosing = "p" /\ id_text = <<>>
       \/ enclosing = "item" /\ id_text \in {<<>>, <<"1">>}

InitJats ==
    /\ converter = "jats"
    /\ para_el \in Paragraphs(JatsEls)
    /\ bracket = FALSE
    /\ enclosing = "p"
    /\ id_text = <<>>

\* no paper is being loaded or released
IdlePaper ==
    /\ origin = "none"
    /\ paper_dict = <<>>
    /\ paper = [raised |-> "unloaded"]
    /\ loads = 0
    /\ outputs = <<>>
    /\ written = [kind |-> "none"]
    /\ now = 0

\* no batch of PDF files is being processed
IdleGrobid ==
    /\ config = <<>>
    /\ pdf_files = <<>>
    /\ file_index = 1
    /\ files = [tei |-> {}, failed_log |-> <<>>]
    /\ call = [pc |-> "none"]
    /\ requests = <<>>
    /\ slept = 0

\* no document is being converted
IdleDocument ==
    /\ source = [kind |-> "none"]
    /\ doc_step = 1
    /\ bibkey_map = <<>>
    /\ refkey_map = <<>>
    /\ sections = <<>>
    /\ doc_raised = ""

\* no call of the substitution engine on its own
IdleEngine ==
    /\ spans_to_replace = <<>>
    /\ full_string = <<>>
    /\ subbed = [called |-> FALSE]

IdleTei ==
    /\ soup = [kind |-> "none"]
    /\ tei_step = 1
    /\ is_bracket_style = FALSE
    /\ entries = <<>>
    /\ tei_raised = ""

IdleId ==
    /\ given_id = <<>>
    /\ normalizer = ""
    /\ id_norm = NoneVal

IdleSections ==
    /\ tex_divs = <<>>
    /\ section_map = <<>>
    /\ sec_step = 1
    /\ seclist = [called |-> FALSE]
    /\ sec_raised = ""

Init ==
    /\ InitTei \/ InitTex \/ InitJats
    /\ returned = FALSE
    /\ result = NoOutcome
    /\ IdlePaper
    /\ IdleGrobid
    /\ IdleDocument
    /\ IdleEngine
    /\ IdleTei
    /\ IdleId
    /\ IdleSections

\* tei_to_json.process_paragraph(sp, para_el, section_names, bib_dict, ref_dict, bracket)
TeiProcessParagraph ==
    /\ converter = "tei"
    /\ ~returned
    /\ returned' = TRUE
    /\ result' = tei_process_paragraph(para_el, TeiBibs, TeiFigs, bracket)
    /\ UNCHANGED <<converter, para_el, bracket, enclosing, id_text, paper_vars, grobid_vars, document_vars, engine_vars, tei_vars, id_vars, section_vars>>

\* xml_to_json.process_paragraph(sp, para_el, section_info, bib_map, ref_map)
TexProcessParagraph ==
    /\ converter = "tex"
    /\ enclosing = "p"
    /\ ~returned
    /\ returned' = TRUE
    /\ result' = tex_process_paragraph(para_el, TexBibMap, TexRefMap)
    /\ UNCHANGED <<converter, para_el, bracket, enclosing, id_text, paper_vars, grobid_vars, document_vars, engine_vars, tei_vars, id_vars, section_vars>>

\* xml_to_json.process_list_el(sp, list_el, section_info, bib_map, ref_map)
TexProcessListEl ==
    /\ converter = "tex"
    /\ enclosing = "item"
    /\ ~returned
    /\ returned' = TRUE
    /\ result' = tex_process_list_el(para_el, id_text, TexBibMap, TexRefMap)
    /\ UNCHANGED <<converter, para_el, bracket, enclosing, id_text, paper_vars, grobid_vars, document_vars, engine_vars, tei_vars, id_vars, section_vars>>

\* parse_all_paragraphs_in_section(sec_tag) and convert_paragraphs_to_s2orc
JatsParseParagraph ==
    /\ converter = "jats"
    /\ ~returned
    /\ returned' = TRUE
    /\ result' = jats_process_paragraph(para_el, JatsIdMap)
    /\ UNCHANGED <<converter, para_el, bracket, enclosing, id_text, paper_vars, grobid_vars, document_vars, engine_vars, tei_vars, id_vars, section_vars>>

Next ==
    \/ TeiProcessParagraph
    \/ TexProcessParagraph
    \/ TexProcessListEl
    \/ JatsParseParagraph

Spec == Init /\ [][Next]_vars

(***************************************************************************)
(* Properties of TEI citation handling                                     *)
(***************************************************************************)
\* the placeholder token behind the i-th citation span: the spans are listed in
\* the order of the tokens in the linearized text
CiteTokenOf(outcome, i) ==
    LET m == FindTokens(outcome.token_text, CITETOKEN, 0)[i]
    IN  Slice(outcome.token_text, m[1], m[2])

\* the citation spans that stand for input element id
SpansOfElement(outcome, id) ==
    {i \in 1..Len(outcome.paragraph.cite_spans) :
        Lookup(outcome.cite_map, CiteTokenOf(outcome, i)).el = id}

\* a citation element without a target, or with a target the bibliography lacks
Unresolved(node, bibs) ==
    /\ node.name = "ref"
    /\ node.type = "bibr"
    /\ \/ node.target = <<>>
       \/ normalize_grobid_id(node.target) \notin bibs

\* C2: in bracket and in non-bracket mode, a TEI citation element that has no
\* target, or whose normalized target is not in the bibliography registry, comes
\* out as exactly one citation span, with ref_id None and the element's surface
\* form (its stripped text) as text, and the paragraph is produced.
C2_UnresolvedCitationEmittedOnce ==
    (converter = "tei" /\ returned) =>
        \A p \in 1..Len(para_el) :
            Unresolved(para_el[p], TeiBibs) =>
                /\ result.raised = ""
                /\ Cardinality(SpansOfElement(result, para_el[p].id)) = 1
                /\ \A i \in SpansOfElement(result, para_el[p].id) :
                       /\ result.paragraph.cite_spans[i].ref_id = NoneVal
                       /\ result.paragraph.cite_spans[i].text = Strip(para_el[p].text)

\* an unresolved citation next to a range marker, in bracket mode, has been emitted
C2_Witness ==
    /\ converter = "tei" /\ returned /\ bracket
    /\ \E p \in 2..Len(para_el) :
           /\ Unresolved(para_el[p], TeiBibs)
           /\ para_el[p].target # <<>>
           /\ para_el[p - 1].text = <<"-">>
           /\ \E i \in SpansOfElement(result, para_el[p].id) :
                  result.paragraph.cite_spans[i].ref_id = NoneVal

\* the paragraph "see [1]-[4]." with targets #b0 and #b3
RangeParagraph == BuildParagraph(TeiRefs, <<1, 2>>, <<2>>)

Bracketed(n) == <<"[">> \o DigitStr(n) \o <<"]">>

\* C3: with bracket style active and BIBREF0..BIBREF3 in the bibliography, the
\* paragraph [1] (BIBREF0), "-", [4] (BIBREF3) yields exactly four citation spans,
\* [1] [2] [3] [4] with ref_ids BIBREF0..BIBREF3, left to right, not overlapping.
C3_BracketRangeExample ==
    (converter = "tei" /\ returned /\ bracket /\ para_el = RangeParagraph) =>
        LET spans == result.paragraph.cite_spans
        IN  /\ result.raised = ""
            /\ Len(spans) = 4
            /\ \A i \in 1..4 :
                   /\ spans[i].text = Bracketed(i)
                   /\ spans[i].ref_id = BIBREF \o DigitStr(i - 1)
                   /\ Slice(result.paragraph.text, spans[i].start, spans[i].end)
                          = Bracketed(i)
            /\ \A i \in 1..3 : spans[i].end <= spans[i + 1].start

C3_Witness ==
    /\ converter = "tei" /\ returned /\ bracket /\ para_el = RangeParagraph
    /\ Len(result.paragraph.cite_spans) = 4
    /\ {BIBREF \o DigitStr(n) : n \in 0..3} \subseteq TeiBibs

(***************************************************************************)
(* Properties of the paragraphs the three converters emit                  *)
(***************************************************************************)
\* a paragraph has been emitted
Emitted == returned /\ result.raised = ""

\* every span of the emitted paragraph, of the three span lists
AllSpans(paragraph) == paragraph.cite_spans \o paragraph.ref_spans \o paragraph.eq_spans

\* the surface text a span records: "text", or "mention" in a JATS blob
SurfaceText(span) == IF "text" \in DOMAIN span THEN span.text ELSE span.mention

\* paragraph.text[span.start:span.end]
Covered(paragraph, span) == Slice(paragraph.text, span.start, span.end)

\* t is a placeholder token: a family prefix followed by digits only
IsTokenOf(t, prefix) ==
    /\ StartsWith(t, prefix)
    /\ Len(t) > Len(prefix)
    /\ DigitRun(From(t, Len(prefix))) = Len(t) - Len(prefix)

TexFamilies == {BIBREF, FIGREF, TABREF, EQREF, FOOTREF, SECREF, SECREFU,
                INLINEFORM, DISPLAYFORM}

\* the span covers a placeholder token left in the text, the one it names in
\* ref_id when it records a ref_id
CoversToken(paragraph, span) ==
    /\ \E prefix \in TexFamilies : IsTokenOf(Covered(paragraph, span), prefix)
    /\ "ref_id" \in DOMAIN span => Covered(paragraph, span) = span.ref_id

\* C1 as stated: in every paragraph any of the three converters emits, every span
\* S of cite_spans, ref_spans and eq_spans has text[S.start:S.end] equal to the
\* surface text recorded in S.
C1_SpanTextIsSurface ==
    Emitted =>
        \A i \in 1..Len(AllSpans(result.paragraph)) :
            Covered(result.paragraph, AllSpans(result.paragraph)[i])
                = SurfaceText(AllSpans(result.paragraph)[i])

\* C1 as amended: a TEI span and a JATS cite or ref span cover the surface text
\* they record (text, mention); a LaTeX span, of a paragraph or of a list item,
\* and a JATS eq span cover the placeholder token that stays in the text.
C1_SpanTextIsSurfaceOrToken ==
    Emitted =>
        /\ converter = "tei" =>
               \A i \in 1..Len(AllSpans(result.paragraph)) :
                   Covered(result.paragraph, AllSpans(result.paragraph)[i])
                       = AllSpans(result.paragraph)[i].text
        /\ converter = "jats" =>
               /\ \A i \in 1..Len(result.paragraph.cite_spans \o result.paragraph.ref_spans) :
                      Covered(result.paragraph,
                              (result.paragraph.cite_spans \o result.paragraph.ref_spans)[i])
                          = (result.paragraph.cite_spans \o result.paragraph.ref_spans)[i].mention
               /\ \A i \in 1..Len(result.paragraph.eq_spans) :
                      CoversToken(result.paragraph, result.paragraph.eq_spans[i])
        /\ converter = "tex" =>
               \A i \in 1..Len(AllSpans(result.paragraph)) :
                   CoversToken(result.paragraph, AllSpans(result.paragraph)[i])

\* a numbered LaTeX list item with a citation and a formula has been emitted
C1_Witness ==
    /\ Emitted /\ converter = "tex" /\ enclosing = "item" /\ id_text # <<>>
    /\ Len(result.paragraph.cite_spans) > 0
    /\ Len(result.paragraph.eq_spans) > 0
    /\ result.paragraph.cite_spans[1].start >= Len(id_text) + 2

\* the text holds a token of the family
HoldsToken(text, prefix) == Len(FindTokens(text, prefix, 0)) > 0

\* the nodes of the paragraph element that pass the test
CountNodes(el, names, with_target) ==
    Cardinality({i \in 1..Len(el) :
                    el[i].name \in names /\ (with_target => el[i].target # <<>>)})

\* C4 as stated: the text of every emitted paragraph holds no placeholder token
\* (CITETOKENn, REFTOKENn, BIBREFn .. FOOTREFn, INLINEFORMn, DISPLAYFORMn).
C4_NoTokenInText ==
    Emitted =>
        \A prefix \in TexFamilies \cup {CITETOKEN, REFTOKEN} :
            ~HoldsToken(result.paragraph.text, prefix)

\* C4 as amended: a TEI paragraph is returned with every CITETOKENn and REFTOKENn
\* replaced by its surface form; a JATS paragraph is returned without xref, sup and
\* sub markers; a LaTeX paragraph keeps the token of every citation and formula
\* in its text, and a JATS paragraph the token of every inline formula.
C4_TokensTransientInTeiOnly ==
    Emitted =>
        /\ converter = "tei" =>
               /\ ~HoldsToken(result.paragraph.text, CITETOKEN)
               /\ ~HoldsToken(result.paragraph.text, REFTOKEN)
        /\ converter = "jats" =>
               /\ NextMarker(result.paragraph.text) = Len(result.paragraph.text)
               /\ Len(FindTokens(result.paragraph.text, INLINEFORM, 0))
                      = CountNodes(para_el, {"inline-formula"}, FALSE)
        /\ converter = "tex" =>
               /\ Len(FindTokens(result.paragraph.text, BIBREF, 0))
                      = CountNodes(para_el, {"cit"}, TRUE)
               /\ Len(FindTokens(result.paragraph.text, INLINEFORM, 0))
                  + Len(FindTokens(result.paragraph.text, DISPLAYFORM, 0))
                      = CountNodes(para_el, {"formula"}, FALSE)

\* a TEI paragraph of several citations, expanded range included, has been returned
C4_Witness ==
    /\ Emitted /\ converter = "tei" /\ bracket
    /\ Len(result.paragraph.cite_spans) >= 4
    /\ HoldsToken(result.token_text, CITETOKEN)

Get(d, k, default) == IF k \in DOMAIN d THEN d[k] ELSE default

Has(d, k) == k \in DOMAIN d

EmptyDict == [k \in {} |-> NoneVal]

\* bool(s) of a str or None
TruthyStr(s) == s # NoneVal /\ s # <<>>

StrVal(v) == [type |-> "str", val |-> v]

ListVal(v) == [type |-> "list", val |-> v]

NoneSection == [type |-> "NoneType", val |-> <<>>]

TypeError == [raised |-> "TypeError"]

\* f(**kw) binds: no unexpected keyword, no missing positional argument
Binds(kw, params, required) == DOMAIN kw \subseteq params /\ required \subseteq DOMAIN kw

AnyRaised(objects) == \E i \in DOMAIN objects : objects[i].raised # ""

CORRECT_KEYS == [issn |-> "issue", type |-> "type_str"]

\* the variant of SKIP_KEYS that lets the key 'link' through
SKIP_KEYS_bib_id_only == {"bib_id"}

SKIP_KEYS == {"link", "bib_id"}

REFERENCE_OUTPUT_KEYS ==
    [figure   |-> {"text", "type_str", "uris", "num"},
     table    |-> {"text", "type_str", "content", "num", "html"},
     footnote |-> {"text", "type_str", "num"},
     section  |-> {"text", "type_str", "num", "parent"},
     equation |-> {"text", "type_str", "latex", "mathml", "num"}]

METADATA_KEYS == {"title", "authors", "year", "venue", "identifiers"}

CorrectKey(k) == IF k \in DOMAIN CORRECT_KEYS THEN CORRECT_KEYS[k] ELSE k

\* {CORRECT_KEYS[k] if k in CORRECT_KEYS else k: v for k, v in d.items() if k not in skip}
\* (no dict of the model holds a key together with its corrected name)
Kwargs(d, skip) ==
    [n \in {CorrectKey(k) : k \in DOMAIN d \ skip} |->
        d[CHOOSE k \in DOMAIN d \ skip : CorrectKey(k) = n]]

REFERENCE_PARAMS ==
    {"text", "type_str", "latex", "mathml", "content", "html", "uris", "num", "parent"}

\* ReferenceEntry.__init__
ReferenceEntry(ref_id, kw) ==
    IF ~Binds(kw, REFERENCE_PARAMS, {"text", "type_str"}) THEN TypeError
    ELSE [raised |-> "", ref_id |-> ref_id,
          attrs |-> [k \in REFERENCE_PARAMS |-> Get(kw, k, NoneVal)]]

\* ReferenceEntry.as_json
ReferenceAsJson(ref) ==
    IF ref.attrs.type_str \in DOMAIN REFERENCE_OUTPUT_KEYS
    THEN [k \in REFERENCE_OUTPUT_KEYS[ref.attrs.type_str] |-> ref.attrs[k]]
    ELSE [k \in (REFERENCE_PARAMS \ {"type_str"}) \cup {"type"} |->
            IF k = "type" THEN ref.attrs.type_str ELSE ref.attrs[k]]

BIBLIOGRAPHY_PARAMS ==
    {"title", "authors", "ref_id", "year", "venue", "volume", "issue", "pages",
     "other_ids", "num", "urls", "raw_text", "links"}

\* BibliographyEntry.__init__
BibliographyEntry(bib_id, kw) ==
    IF ~Binds(kw, BIBLIOGRAPHY_PARAMS, {"title", "authors"}) THEN TypeError
    ELSE [raised |-> "", bib_id |-> bib_id,
          attrs |-> [k \in BIBLIOGRAPHY_PARAMS |-> Get(kw, k, NoneVal)]]

\* BibliographyEntry.as_json
BibliographyAsJson(bib) == bib.attrs

AFFILIATION_PARAMS == {"laboratory", "institution", "location"}

\* Author.__init__ (with Affiliation.__init__ when the affiliation is not empty)
Author(kw) ==
    IF ~Binds(kw, {"first", "middle", "last", "suffix", "affiliation", "email"},
              {"first", "middle", "last", "suffix"}) THEN TypeError
    ELSE IF /\ Get(kw, "affiliation", EmptyDict) # EmptyDict
            /\ ~Binds(kw.affiliation, AFFILIATION_PARAMS, AFFILIATION_PARAMS)
    THEN TypeError
    ELSE [raised |-> "", first |-> kw.first, middle |-> kw.middle, last |-> kw.last,
          suffix |-> kw.suffix, affiliation |-> Get(kw, "affiliation", EmptyDict),
          email |-> Get(kw, "email", NoneVal)]

\* Author.as_json
AuthorAsJson(author) ==
    [first |-> author.first, middle |-> author.middle, last |-> author.last,
     suffix |-> author.suffix, affiliation |-> author.affiliation, email |-> author.email]

MetadataOf(kw, authors) ==
    IF AnyRaised(authors) THEN TypeError
    ELSE [raised |-> "", title |-> kw.title, authors |-> authors,
          year |-> Get(kw, "year", NoneVal), venue |-> Get(kw, "venue", NoneVal),
          identifiers |-> Get(kw, "identifiers", EmptyDict)]

\* Metadata.__init__
Metadata(kw) ==
    IF ~Binds(kw, METADATA_KEYS, {"title", "authors"}) THEN TypeError
    ELSE MetadataOf(kw, [i \in DOMAIN kw.authors |-> Author(kw.authors[i])])

\* Metadata.as_json
MetadataAsJson(metadata) ==
    [title |-> metadata.title,
     authors |-> [i \in DOMAIN metadata.authors |-> AuthorAsJson(metadata.authors[i])],
     year |-> metadata.year, venue |-> metadata.venue,
     identifiers |-> metadata.identifiers]

SECTION_SEP == <<":", ":">>

\* section.split('::') on what is left of the string, acc being the part under way
RECURSIVE Split(_, _)
Split(t, acc) ==
    IF t = <<>> THEN <<acc>>
    ELSE IF StartsWith(t, SECTION_SEP) THEN <<acc>> \o Split(From(t, 2), <<>>)
    ELSE Split(Tail(t), Append(acc, Head(t)))

\* '::'.join(names)
RECURSIVE JoinSections(_)
JoinSections(names) ==
    IF Len(names) = 0 THEN <<>>
    ELSE IF Len(names) = 1 THEN names[1]
    ELSE names[1] \o SECTION_SEP \o JoinSections(Tail(names))

\* [[None, sec_name] for sec_name in sec_parts], then section_list[-1][0] = sec_num
NumberedSections(parts, sec_num) ==
    [i \in 1..Len(parts) |->
        <<IF i = Len(parts) /\ TruthyStr(sec_num) THEN sec_num ELSE NoneVal, parts[i]>>]

\* the section_list of Paragraph.__init__
SectionList(section, sec_num) ==
    IF section.type = "str"
    THEN IF section.val # <<>>
         THEN ListVal(NumberedSections(Split(section.val, <<>>), sec_num))
         ELSE NoneSection
    ELSE section

PARAGRAPH_PARAMS == {"text", "cite_spans", "ref_spans", "eq_spans", "section", "sec_num"}

\* Paragraph.__init__
Paragraph(kw) ==
    IF ~Binds(kw, PARAGRAPH_PARAMS, {"text", "cite_spans", "ref_spans"}) THEN TypeError
    ELSE [raised |-> "", text |-> kw.text, cite_spans |-> kw.cite_spans,
          ref_spans |-> kw.ref_spans, eq_spans |-> Get(kw, "eq_spans", <<>>),
          section |-> SectionList(Get(kw, "section", NoneSection),
                                  Get(kw, "sec_num", NoneVal))]

\* bool(self.section)
HasSection(para) == para.section.val # <<>>

\* Paragraph.as_json
ParagraphAsJson(para) ==
    [text |-> para.text, cite_spans |-> para.cite_spans, ref_spans |-> para.ref_spans,
     eq_spans |-> para.eq_spans,
     section |-> StrVal(IF HasSection(para)
                        THEN JoinSections([i \in DOMAIN para.section.val |->
                                              para.section.val[i][2]])
                        ELSE <<>>),
     sec_num |-> IF HasSection(para)
                 THEN para.section.val[Len(para.section.val)][1]
                 ELSE NoneVal]

ParagraphList(dicts) == [i \in DOMAIN dicts |-> Paragraph(dicts[i])]

ParagraphsAsJson(paras) == [i \in DOMAIN paras |-> ParagraphAsJson(paras[i])]

PaperOf(paper_id, pdf_hash, metadata, abstract, body_text, back_matter, bibs, refs) ==
    IF \/ metadata.raised # ""
       \/ AnyRaised(abstract) \/ AnyRaised(body_text) \/ AnyRaised(back_matter)
       \/ AnyRaised(bibs) \/ AnyRaised(refs)
    THEN TypeError
    ELSE [raised |-> "", paper_id |-> paper_id, pdf_hash |-> pdf_hash,
          metadata |-> metadata, abstract |-> abstract, body_text |-> body_text,
          back_matter |-> back_matter, bib_entries |-> bibs, ref_entries |-> refs]

\* Paper.__init__; the entries are kept by key, as the serializations key them
Paper(paper_id, pdf_hash, metadata, abstract, body_text, back_matter, bib_entries, ref_entries) ==
    PaperOf(paper_id, pdf_hash, Metadata(metadata),
            ParagraphList(abstract), ParagraphList(body_text), ParagraphList(back_matter),
            [k \in DOMAIN bib_entries |->
                BibliographyEntry(k, Kwargs(bib_entries[k], SKIP_KEYS))],
            [k \in DOMAIN ref_entries |->
                ReferenceEntry(k, Kwargs(ref_entries[k], {"ref_id"}))])

\* the five lists and dicts both serializations write
ParseJson(p) ==
    [abstract |-> ParagraphsAsJson(p.abstract),
     body_text |-> ParagraphsAsJson(p.body_text),
     back_matter |-> ParagraphsAsJson(p.back_matter),
     bib_entries |-> [k \in DOMAIN p.bib_entries |-> BibliographyAsJson(p.bib_entries[k])],
     ref_entries |-> [k \in DOMAIN p.ref_entries |-> ReferenceAsJson(p.ref_entries[k])]]

\* Paper.as_json
as_json(p) ==
    [paper_id |-> p.paper_id, pdf_hash |-> p.pdf_hash,
     metadata |-> MetadataAsJson(p.metadata)] @@ ParseJson(p)

\* '\n'.join([para.text for para in self.abstract])
RECURSIVE JoinLines(_)
JoinLines(paras) ==
    IF Len(paras) = 0 THEN <<>>
    ELSE IF Len(paras) = 1 THEN paras[1].text
    ELSE paras[1].text \o <<"\n">> \o JoinLines(Tail(paras))

raw_abstract_text(p) == JoinLines(p.abstract)

\* f"{doc_type}_parse"
ParseKey(doc_type) ==
    CASE doc_type = "pdf" -> "pdf_parse"
      [] doc_type = "jats" -> "jats_parse"

\* Paper.release_json(doc_type) at the time date
release_json(p, doc_type, date) ==
    (ParseKey(doc_type) :>
        ([paper_id |-> p.paper_id, _pdf_hash |-> p.pdf_hash] @@ ParseJson(p)))
    @@ [paper_id |-> p.paper_id,
        header |-> [generated_with |-> "S2ORC", date_generated |-> date],
        abstract |-> raw_abstract_text(p)]
    @@ MetadataAsJson(p.metadata)

\* the variant of LinkList that keeps the links a previous load has written
LinkListAppended(v) == Get(v, "links", <<>>) \o <<v.link>>

\* [v['link']]
LinkList(v) == <<v.link>>

\* for k, v in bib_entries.items(): if 'link' in v: v['links'] = [v['link']]
SetLinks(bib_entries) ==
    [k \in DOMAIN bib_entries |->
        IF Has(bib_entries[k], "link")
        THEN ("links" :> LinkList(bib_entries[k])) @@ bib_entries[k]
        ELSE bib_entries[k]]

\* paper_dict.get('_pdf_hash', paper_dict.get('s2_pdf_hash', None))
PdfHash(d) == Get(d, "_pdf_hash", Get(d, "s2_pdf_hash", NoneVal))

\* {k: v for k, v in metadata.items() if k in METADATA_KEYS}
MetadataKwargs(metadata) == [k \in DOMAIN metadata \cap METADATA_KEYS |-> metadata[k]]

DefaultMetadata == [title |-> NoneVal, authors |-> <<>>, year |-> NoneVal]

\* the 2019 branch is taken
IsGrobidParse(d) == Has(d, "grobid_parse") /\ d.grobid_parse # EmptyDict

\* the branch of the current and of the 2020 release is taken
IsPdfParse(d) ==
    \/ Has(d, "pdf_parse") /\ d.pdf_parse # EmptyDict
    \/ Has(d, "body_text") /\ d.body_text # <<>>

\* the Paper(...) call that ends load_s2orc, parse being the dict that holds the lists
LoadParse(paper_id, pdf_hash, metadata, parse) ==
    Paper(paper_id, pdf_hash, metadata,
          Get(parse, "abstract", <<>>), Get(parse, "body_text", <<>>),
          Get(parse, "back_matter", <<>>),
          SetLinks(Get(parse, "bib_entries", EmptyDict)),
          Get(parse, "ref_entries", EmptyDict))

\* paper_dict = paper_dict["pdf_parse"] and the metadata of that dict
LoadPdfParse(paper_id, pdf_hash, parse) ==
    LoadParse(paper_id, pdf_hash,
              IF Get(parse, "metadata", EmptyDict) # EmptyDict
              THEN MetadataKwargs(parse.metadata) ELSE DefaultMetadata,
              parse)

\* load_s2orc(paper_dict): the Paper it returns or the exception it raises
load_s2orc(d) ==
    IF IsGrobidParse(d)
    THEN IF ~Has(d, "metadata") THEN [raised |-> "KeyError"]
         ELSE LoadParse(d.paper_id, PdfHash(d), MetadataKwargs(d.metadata), d.grobid_parse)
    ELSE IF IsPdfParse(d)
    THEN LoadPdfParse(d.paper_id, PdfHash(d), IF Has(d, "pdf_parse") THEN d.pdf_parse ELSE d)
    ELSE [raised |-> "NotImplementedError"]

\* load_s2orc(paper_dict): the dict object after the call
Loaded(d) ==
    IF IsGrobidParse(d)
    THEN IF Has(d, "metadata") /\ Has(d.grobid_parse, "bib_entries")
         THEN [d EXCEPT !.grobid_parse.bib_entries = SetLinks(@)] ELSE d
    ELSE IF IsPdfParse(d)
    THEN IF Has(d, "pdf_parse")
         THEN IF Has(d.pdf_parse, "bib_entries")
              THEN [d EXCEPT !.pdf_parse.bib_entries = SetLinks(@)] ELSE d
         ELSE IF Has(d, "bib_entries")
              THEN [d EXCEPT !.bib_entries = SetLinks(@)] ELSE d
    ELSE d

(***************************************************************************)
(* The papers of the model: release files in the three layouts load_s2orc  *)
(* tells apart, and the arguments a converter hands to Paper(...).         *)
(***************************************************************************)
SomeSpan == [start |-> 0, end |-> 1, text |-> <<"a">>, ref_id |-> <<"B">>]

\* paragraphs of a release file: the section is a string
FileParagraphs ==
    {[text |-> <<"a">>, cite_spans |-> <<SomeSpan>>, ref_spans |-> <<>>, eq_spans |-> <<>>,
      section |-> StrVal(<<"I">>), sec_num |-> <<"1">>],
     [text |-> <<"b">>, cite_spans |-> <<>>, ref_spans |-> <<>>,
      section |-> StrVal(<<"A", ":", ":", "B">>)],
     [text |-> <<"c">>, cite_spans |-> <<>>, ref_spans |-> <<>>, eq_spans |-> <<>>,
      section |-> StrVal(<<>>), sec_num |-> NoneVal]}

\* paragraphs of tei_to_json: the section is the list of (n, head) of the enclosing divs
ConverterParagraphs ==
    {[text |-> <<"a">>, cite_spans |-> <<SomeSpan>>, ref_spans |-> <<>>,
      section |-> ListVal(<< <<NoneVal, <<"A">>>>, <<<<"2">>, <<"B">>>> >>)],
     [text |-> <<"b">>, cite_spans |-> <<>>, ref_spans |-> <<>>,
      section |-> ListVal(<< <<<<"1">>, <<>>>> >>)],
     [text |-> <<"c">>, cite_spans |-> <<>>, ref_spans |-> <<>>, eq_spans |-> <<>>,
      section |-> ListVal(<<>>)]}

\* the lists of at most MaxParagraphs paragraphs
RECURSIVE Bodies(_, _)
Bodies(paragraphs, n) ==
    IF n = 0 THEN {<<>>}
    ELSE Bodies(paragraphs, n - 1)
         \cup {Append(b, q) : b \in Bodies(paragraphs, n - 1), q \in paragraphs}

SomeAuthor == [first |-> <<"A">>, middle |-> <<>>, last |-> <<"H">>, suffix |-> <<>>]

SomeMetadata ==
    [title |-> <<"T">>, authors |-> <<SomeAuthor>>, year |-> <<"9">>, abstract |-> <<"x">>]

\* bibliographies: of the 2019 release (issn, link), and of a converter
Bibliographies ==
    <<[BIBREF0 |-> [title |-> <<"T">>, authors |-> <<>>, year |-> <<"9">>,
                   issn |-> <<"3">>, link |-> <<"L">>, bib_id |-> <<"0">>]],
     [BIBREF0 |-> [ref_id |-> <<"b">>, title |-> <<"T">>, authors |-> <<>>,
                   year |-> NoneVal, venue |-> <<"V">>, raw_text |-> <<"r">>]]>>

\* figures and tables: of the 2019 release (type), and of a converter
References ==
    <<[FIGREF0 |-> [text |-> <<"F">>, type |-> "figure", latex |-> NoneVal]],
     [TABREF0 |-> [text |-> <<"t">>, type_str |-> "table", content |-> <<"c">>,
                   num |-> NoneVal, html |-> <<"h">>],
      EQREF0 |-> [text |-> <<"e">>, type_str |-> "formula", latex |-> <<"x">>,
                  ref_id |-> <<"E">>]]>>

\* the lists and entries of a paper: style is 1 for a release file of 2019, 2 for the
\* later ones and for a converter
ParseDicts(paragraphs, styles) ==
    {[abstract |-> Slice(body_text, 0, 1), body_text |-> body_text, back_matter |-> <<>>,
      bib_entries |-> Bibliographies[style], ref_entries |-> References[style]] :
        body_text \in Bodies(paragraphs, MaxParagraphs), style \in styles}

\* the 2019 release: metadata beside grobid_parse (which is empty for a paper without PDF)
GrobidParseFiles ==
    {[paper_id |-> <<"p">>, s2_pdf_hash |-> <<"h">>, metadata |-> SomeMetadata,
      grobid_parse |-> parse] : parse \in ParseDicts(FileParagraphs, {1}) \cup {EmptyDict}}

\* the current release and the 2020 release with pdf_parse
PdfParseFiles ==
    {[paper_id |-> <<"p">>, _pdf_hash |-> <<"h">>,
      pdf_parse |-> ([paper_id |-> <<"p">>, _pdf_hash |-> <<"h">>] @@ parse)] :
        parse \in ParseDicts(FileParagraphs, {1, 2})}

\* the lists at the top level
BodyTextFiles ==
    {[paper_id |-> <<"p">>, metadata |-> SomeMetadata] @@ parse :
        parse \in ParseDicts(FileParagraphs, {1, 2})}

InitFile ==
    /\ origin = "file"
    /\ paper_dict \in GrobidParseFiles \cup PdfParseFiles \cup BodyTextFiles
    /\ paper = [raised |-> "unloaded"]

\* a converter ends with return Paper(paper_id=..., ..., ref_entries=refkey_map)
InitConverted ==
    /\ origin = "converter"
    /\ paper_dict = EmptyDict
    /\ \E parse \in ParseDicts(ConverterParagraphs, {2}) :
          paper = Paper(<<"p">>, <<"h">>, MetadataKwargs(SomeMetadata),
                        parse.abstract, parse.body_text, parse.back_matter,
                        parse.bib_entries, parse.ref_entries)

InitPaper ==
    /\ converter = "none"
    /\ para_el = <<>>
    /\ bracket = FALSE
    /\ enclosing = "p"
    /\ id_text = <<>>
    /\ returned = FALSE
    /\ result = NoOutcome
    /\ InitFile \/ InitConverted
    /\ loads = 0
    /\ outputs = <<>>
    /\ written = [kind |-> "none"]
    /\ now = 0
    /\ IdleGrobid
    /\ IdleDocument
    /\ IdleEngine
    /\ IdleTei
    /\ IdleId
    /\ IdleSections

\* paper = load_s2orc(paper_dict), at first or after the paper of the previous load
\* was serialized; an exception ends the run
LoadS2orc ==
    /\ origin \in {"file", "written"}
    /\ paper.raised \in {"unloaded", ""}
    /\ loads <= Len(outputs)
    /\ loads' = loads + 1
    /\ paper' = load_s2orc(paper_dict)
    /\ paper_dict' = Loaded(paper_dict)
    /\ UNCHANGED <<origin, outputs, written, now, paragraph_vars, grobid_vars, document_vars, engine_vars, tei_vars, id_vars, section_vars>>

\* paper.as_json()
AsJson ==
    /\ paper.raised = ""
    /\ Len(outputs) < MaxOutputs
    /\ outputs' = Append(outputs, [kind |-> "as_json", doc_type |-> "", try |-> loads,
                                   json |-> as_json(paper)])
    /\ UNCHANGED <<origin, paper_dict, paper, loads, written, now, paragraph_vars, grobid_vars, document_vars, engine_vars, tei_vars, id_vars, section_vars>>

\* paper.release_json(doc_type), as process_pdf ("pdf") and process_jats ("jats") call
\* it; process_tex calls it with "latex", a doc_type the code treats as it treats "jats"
ReleaseJson ==
    /\ paper.raised = ""
    /\ Len(outputs) < MaxOutputs
    /\ \E doc_type \in {"pdf", "jats"} :
          outputs' = Append(outputs, [kind |-> "release_json", doc_type |-> doc_type,
                                      try |-> loads,
                                      json |-> release_json(paper, doc_type, now)])
    /\ now' = now + 1
    /\ UNCHANGED <<origin, paper_dict, paper, loads, written, paragraph_vars, grobid_vars, document_vars, engine_vars, tei_vars, id_vars, section_vars>>

\* json.dump(output, outf) of the output just made and, later, data = json.load(f):
\* the values of an output are dicts with string keys, lists, strings, numbers and
\* None, which JSON keeps
WriteAndRead ==
    /\ origin \in {"file", "converter"}
    /\ outputs # <<>>
    /\ written' = outputs[Len(outputs)]
    /\ paper_dict' = outputs[Len(outputs)].json
    /\ origin' = "written"
    /\ paper' = [raised |-> "unloaded"]
    /\ loads' = 0
    /\ outputs' = <<>>
    /\ UNCHANGED <<now, paragraph_vars, grobid_vars, document_vars, engine_vars, tei_vars, id_vars, section_vars>>

NextPaper ==
    \/ LoadS2orc
    \/ AsJson
    \/ ReleaseJson
    \/ WriteAndRead

SpecPaper == InitPaper /\ [][NextPaper]_vars

(***************************************************************************)
(* C6 - C8: loading and serializing papers.                                *)
(***************************************************************************)
\* the abstract, body_text, bib_entries and ref_entries of an output
Content(output) ==
    [k \in {"abstract", "body_text", "bib_entries", "ref_entries"} |->
        IF output.kind = "as_json" THEN output.json[k]
        ELSE output.json[ParseKey(output.doc_type)][k]]

\* C6: a JSON that release_json (of any doc_type) or as_json produced, and that was
\* written and read back, is loaded by load_s2orc, and every serialization of the
\* loaded paper has the abstract, body_text, bib_entries and ref_entries of that JSON.
C6_RoundTrip ==
    written.kind # "none" =>
        /\ paper.raised \in {"unloaded", ""}
        /\ \A i \in DOMAIN outputs : Content(outputs[i]) = Content(written)

\* the round trip that the release of a PDF paper does make
C6_PdfRoundTripReached ==
    /\ written.kind = "release_json"
    /\ written.doc_type = "pdf"
    /\ paper.raised = ""
    /\ \E i \in DOMAIN outputs : Content(outputs[i]) = Content(written)

IsPdfRelease(output) == output.kind = "release_json" /\ output.doc_type = "pdf"

\* C7: the outputs of release_json("pdf") on the papers that load_s2orc returns for one
\* dict object have the same top-level keys and, but for the header, the same values.
C7_LoadReleaseDeterministic ==
    origin \in {"file", "written"} =>
        \A i, j \in DOMAIN outputs :
            IsPdfRelease(outputs[i]) /\ IsPdfRelease(outputs[j]) =>
                /\ DOMAIN outputs[i].json = DOMAIN outputs[j].json
                /\ \A k \in DOMAIN outputs[i].json \ {"header"} :
                      outputs[i].json[k] = outputs[j].json[k]

\* two loads of one 2019 dict, whose first load wrote the key 'links', each released
C7_Witness ==
    /\ origin = "file"
    /\ IsGrobidParse(paper_dict)
    /\ \E k \in DOMAIN paper_dict.grobid_parse.bib_entries :
          Has(paper_dict.grobid_parse.bib_entries[k], "links")
    /\ \E i, j \in DOMAIN outputs :
          /\ IsPdfRelease(outputs[i]) /\ IsPdfRelease(outputs[j])
          /\ outputs[i].try = 1 /\ outputs[j].try = 2
          /\ outputs[i].json.header # outputs[j].json.header

sleep_time == 5

DEFAULT_GROBID_CONFIG ==
    [sleep_time |-> sleep_time, generateIDs |-> FALSE, consolidate_header |-> FALSE,
     consolidate_citations |-> FALSE, include_raw_citations |-> TRUE,
     include_raw_affiliations |-> FALSE]

Flag(b) == IF b THEN "1" ELSE "0"

\* the_data of process_pdf_stream
TheData(cfg) ==
    [generateIDs |-> Flag(cfg.generateIDs),
     consolidateHeader |-> Flag(cfg.consolidate_header),
     consolidateCitations |-> Flag(cfg.consolidate_citations),
     includeRawAffiliations |-> Flag(cfg.include_raw_affiliations),
     includeRawCitations |-> Flag(cfg.include_raw_citations)]

\* what self.post sends for the arguments (pdf_file, pdf_strm, output, service)
Request(cfg, args) ==
    [url |-> args[4], files |-> <<args[1], args[2]>>, data |-> TheData(cfg)]

\* the offsets of the path separators and of the dots of a name
Offsets(t, chars) == {i \in 1..Len(t) : t[i] \in chars}

Greatest(S) == CHOOSE i \in S : \A j \in S : j <= i

\* ntpath.basename(pdf_file)
Basename(t) ==
    IF Offsets(t, {"/", "\\"}) = {} THEN t
    ELSE SubSeq(t, Greatest(Offsets(t, {"/", "\\"})) + 1, Len(t))

\* os.path.splitext(name)[0]
Stem(name) ==
    IF Offsets(name, {"."}) \ {1} = {} THEN name
    ELSE SubSeq(name, 1, Greatest(Offsets(name, {"."})) - 1)

\* the TEI file of a PDF file, by its name in the output directory
TeiName(pdf_file) == Stem(Basename(pdf_file))

\* t.strip(chars): the characters of chars are removed from both ends
RECURSIVE StripLeft(_, _)
StripLeft(t, chars) ==
    IF t # <<>> /\ Head(t) \in chars THEN StripLeft(Tail(t), chars) ELSE t

RECURSIVE StripRight(_, _)
StripRight(t, chars) ==
    IF t # <<>> /\ t[Len(t)] \in chars THEN StripRight(SubSeq(t, 1, Len(t) - 1), chars)
    ELSE t

\* the variant of FailedLog that writes nothing
FailedLogUnchanged(log, pdf_file) == log

\* failed.write(pdf_file.strip(".pdf") + "\n") on the file opened with "a+"
FailedLog(log, pdf_file) ==
    Append(log, StripRight(StripLeft(pdf_file, {".", "p", "d", "f"}), {".", "p", "d", "f"}))

\* def process_pdf_stream(self, pdf_file, pdf_strm, output, service)
PARAMETERS == <<"pdf_file", "pdf_strm", "output", "service">>

\* a call with these positional arguments binds every parameter
BindsPositional(args) == Len(args) = Len(PARAMETERS)

\* self.process_pdf_stream(pdf_file, pdf_strm, service)
RetryArgs(args) == <<args[1], args[2], args[4]>>

\* log_before is failed.log as it was when process_pdf_stream was called
NoCall ==
    [pc |-> "none", args |-> <<>>, status |-> 0, text |-> <<>>, raised |-> "",
     log_before |-> <<>>]

PdfNames ==
    {<<"i", "n", "/", "a", ".", "p", "d", "f">>,
     <<"d", "/", "p", "a", ".", "p", "d", "f">>,
     <<"b", ".", "p", "d", "f">>}

RECURSIVE Batches(_)
Batches(n) ==
    IF n = 0 THEN {<<>>}
    ELSE Batches(n - 1) \cup {Append(b, f) : b \in Batches(n - 1), f \in PdfNames}

InitGrobid ==
    /\ converter = "none"
    /\ para_el = <<>>
    /\ bracket = FALSE
    /\ enclosing = "p"
    /\ id_text = <<>>
    /\ returned = FALSE
    /\ result = NoOutcome
    /\ IdlePaper
    /\ IdleDocument
    /\ IdleEngine
    /\ IdleTei
    /\ IdleId
    /\ IdleSections
    /\ config \in {DEFAULT_GROBID_CONFIG,
                   [DEFAULT_GROBID_CONFIG EXCEPT !.generateIDs = TRUE,
                                                 !.include_raw_citations = FALSE]}
    /\ pdf_files \in Batches(MaxFiles)
    /\ file_index = 1
    /\ files \in {[tei |-> tei, failed_log |-> log] :
                    tei \in {{}, {<<"a">>}}, log \in {<<>>, << <<"z">> >>}}
    /\ call = NoCall
    /\ requests = <<>>
    /\ slept = 0

\* process_pdf up to its call of process_pdf_stream: a file whose TEI file exists is
\* passed over
ProcessPdf ==
    /\ call.pc = "none"
    /\ file_index <= Len(pdf_files)
    /\ IF TeiName(pdf_files[file_index]) \in files.tei
       THEN /\ file_index' = file_index + 1
            /\ UNCHANGED <<call, requests>>
       ELSE /\ call' = [NoCall EXCEPT !.pc = "called",
                                      !.args = <<pdf_files[file_index], <<"%">>, <<"o">>,
                                                 <<"s">>>>,
                                      !.log_before = files.failed_log]
            /\ requests' = <<>>
            /\ UNCHANGED file_index
    /\ UNCHANGED <<config, pdf_files, files, slept, paragraph_vars, paper_vars, document_vars, engine_vars, tei_vars, id_vars, section_vars>>

\* process_pdf_stream from its start to the return or to the sleep
PostRequest ==
    /\ call.pc = "called"
    /\ Len(requests) < MaxRequests
    /\ requests' = Append(requests, Request(config, call.args))
    /\ \E status \in {200, 204, 500, 503}, text \in {<<>>, <<"x">>} :
          IF status = 503
          THEN /\ call' = [call EXCEPT !.pc = "sleeping", !.status = status]
               /\ UNCHANGED files
          ELSE IF status # 200
          THEN /\ files' = [files EXCEPT !.failed_log = FailedLog(@, call.args[1])]
               /\ call' = [call EXCEPT !.pc = "returned", !.status = status, !.text = <<>>]
          ELSE /\ call' = [call EXCEPT !.pc = "returned", !.status = status, !.text = text]
               /\ UNCHANGED files
    /\ UNCHANGED <<config, pdf_files, file_index, slept, paragraph_vars, paper_vars, document_vars, engine_vars, tei_vars, id_vars, section_vars>>

\* time.sleep(self.sleep_time) and the recursive call
SleepAndRetry ==
    /\ call.pc = "sleeping"
    /\ slept' = slept + config.sleep_time
    /\ IF BindsPositional(RetryArgs(call.args))
       THEN call' = [call EXCEPT !.pc = "called", !.args = RetryArgs(call.args)]
       ELSE call' = [call EXCEPT !.pc = "raised", !.raised = "TypeError"]
    /\ UNCHANGED <<config, pdf_files, file_index, files, requests, paragraph_vars,
                   paper_vars, document_vars, engine_vars, tei_vars, id_vars, section_vars>>

\* process_pdf after the call: the TEI file is written when the text is not empty
WriteTei ==
    /\ call.pc = "returned"
    /\ files' = IF call.text # <<>>
                THEN [files EXCEPT !.tei = @ \cup {TeiName(call.args[1])}]
                ELSE files
    /\ file_index' = file_index + 1
    /\ call' = NoCall
    /\ UNCHANGED <<config, pdf_files, requests, slept, paragraph_vars, paper_vars, document_vars, engine_vars, tei_vars, id_vars, section_vars>>

NextGrobid ==
    \/ ProcessPdf
    \/ PostRequest
    \/ SleepAndRetry
    \/ WriteTei

SpecGrobid == InitGrobid /\ [][NextGrobid]_vars

(***************************************************************************)
(* C9, C10: the answers of the service.                                    *)
(***************************************************************************)
\* C9: after a busy answer (503) process_pdf_stream sleeps sleep_time and posts the
\* request again with the same arguments - the retry does not raise -, whatever the
\* number of busy answers.
C9_BusyIsRetried ==
    /\ call.raised = ""
    /\ \A i \in DOMAIN requests : requests[i] = requests[1]
    /\ call.pc = "called" => slept = sleep_time * Len(requests)

\* e is a part of the string t
IsPartOf(e, t) == \E i \in 1..Len(t) + 1, j \in 0..Len(t) : SubSeq(t, i, j) = e

\* C10: after an answer other than 200 and 503 the call has returned the empty string,
\* having posted one request and appended one entry, made of the name of the file, to
\* the failed.log it found.
C10_FailureLoggedOnce ==
    call.pc = "returned" /\ call.status \notin {200, 503} =>
        /\ call.text = <<>>
        /\ Len(requests) = 1
        /\ Len(files.failed_log) = Len(call.log_before) + 1
        /\ SubSeq(files.failed_log, 1, Len(call.log_before)) = call.log_before
        /\ IsPartOf(files.failed_log[Len(files.failed_log)], call.args[1])

\* a failure answer for the second file of a batch, after a first entry in failed.log
C10_Witness ==
    /\ call.pc = "returned"
    /\ call.status = 500
    /\ file_index = 2
    /\ call.log_before # <<>>
    /\ Len(files.failed_log) = Len(call.log_before) + 1

(***************************************************************************)
(* C11: JATS cross-references that name no registered entry.               *)
(***************************************************************************)
\* an <xref> to a citation, figure or table whose rid is absent, empty or unknown
\* to the old-to-new identifier map
JatsUnresolved(node, old_to_new) ==
    /\ node.name = "xref"
    /\ node.type \in {<<"b", "i", "b", "r">>, <<"f", "i", "g">>, <<"t", "a", "b", "l", "e">>}
    /\ \/ node.target = NoneVal
       \/ node.target = <<>>
       \/ ~HasKey(old_to_new, node.target)

\* the cite and ref spans of the paragraph that record the mention
SpansWithMention(paragraph, mention) ==
    {i \in 1..Len(paragraph.cite_spans \o paragraph.ref_spans) :
        (paragraph.cite_spans \o paragraph.ref_spans)[i].mention = mention}

\* C11: a JATS paragraph holding a cross-reference whose rid is missing, empty or
\* absent from the old-to-new identifier map is converted without an exception,
\* and every span of that cross-reference has ref_id None.
C11_UnresolvedXrefIsNone ==
    (converter = "jats" /\ returned) =>
        \A p \in 1..Len(para_el) :
            JatsUnresolved(para_el[p], JatsIdMap) =>
                /\ result.raised = ""
                /\ SpansWithMention(result.paragraph, para_el[p].text) # {}
                /\ \A i \in SpansWithMention(result.paragraph, para_el[p].text) :
                       (result.paragraph.cite_spans \o result.paragraph.ref_spans)[i].ref_id
                           = NoneVal

\* the cross-references with an absent or an unknown rid do come out with ref_id None
C11_AbsentAndUnknownReached ==
    /\ converter = "jats" /\ returned /\ result.raised = ""
    /\ \E p, q \in 1..Len(para_el) :
           /\ para_el[p].name = "xref" /\ para_el[p].target = NoneVal
           /\ para_el[q].name = "xref" /\ para_el[q].target = <<"B", "9">>
    /\ \A i \in 1..Len(result.paragraph.cite_spans) :
           result.paragraph.cite_spans[i].ref_id = NoneVal

(***************************************************************************)
(* The three document converters: convert_tei_xml_soup_to_s2orc_json,      *)
(* convert_jats_xml_to_s2orc_json and convert_xml_to_s2orc.  A document    *)
(* carries the sources of its registries and one paragraph element per     *)
(* part (<<>>: the part is absent); a registry is the sequence of its      *)
(* entries, each with its key in token.                                    *)
(***************************************************************************)
\* the statements of each convert function that build a registry or convert a part,
\* in the order the function runs them
DocSteps(kind) ==
    IF kind = "tei"
    THEN <<"bibliography", "references", "abstract", "body", "back_matter", "return">>
    ELSE IF kind = "jats"
    THEN <<"references", "abstract", "bibliography", "body", "return">>
    ELSE <<"bibliography", "references", "abstract", "body", "return">>

PARTS == {"abstract", "body", "back_matter"}

\* the keys of a registry
Keys(registry) == {registry[i].token : i \in 1..Len(registry)}

HasTitle(bib) == bib.title # <<>>

\* tex2json: normalize_latex_id
normalize_latex_id(latex_id) ==
    LET str_norm == Replace(Upper(latex_id), <<"_">>, <<>>)
    IN  IF StartsWith(str_norm, <<"B", "I", "D">>)
        THEN Replace(str_norm, <<"B", "I", "D">>, BIBREF)
        ELSE IF StartsWith(str_norm, <<"C", "I", "D">>)
        THEN Replace(str_norm, <<"C", "I", "D">>, SECREF)
        ELSE IF StartsWith(str_norm, <<"F", "O", "R", "M", "U", "L", "A">>)
        THEN Replace(str_norm, <<"F", "O", "R", "M", "U", "L", "A">>, EQREF)
        ELSE str_norm

\* JATS: for i, (old_key, blob) in enumerate(sorted(blobs.items())), skipping a blob
\* without label or caption; blobs is in the order of its keys
RECURSIVE Renumbered(_, _, _)
Renumbered(blobs, family, i) ==
    IF i > Len(blobs) THEN <<>>
    ELSE (IF blobs[i].label = <<>> \/ blobs[i].caption = <<>> THEN <<>>
          ELSE <<[token |-> blobs[i].id, new |-> family \o DigitStr(i - 1)]>>)
         \o Renumbered(blobs, family, i + 1)

\* TeX: the bibitems process_bibentry could parse
Parsed(item) == item.id # <<>> /\ item.parsed

RECURSIVE TexBibliography(_, _)
TexBibliography(items, i) ==
    IF i > Len(items) THEN <<>>
    ELSE (IF Parsed(items[i])
          THEN <<[token |-> normalize_latex_id(items[i].id), num |-> DigitStr(i - 1)]>>
          ELSE <<>>)
         \o TexBibliography(items, i + 1)

\* the bibliography registry the convert function builds: bibkey_map (TEI, LaTeX),
\* bib_entries (JATS)
BuildBibkeyMap(src) ==
    IF src.kind = "tei"
    THEN [i \in 1..Len(SelectSeq(src.bibliography, HasTitle)) |->
             [token |-> normalize_grobid_id(SelectSeq(src.bibliography, HasTitle)[i].id),
              title |-> SelectSeq(src.bibliography, HasTitle)[i].title]]
    ELSE IF src.kind = "jats"
    THEN [i \in 1..Len(src.bibliography) |->
             [token |-> BIBREF \o DigitStr(i - 1), old |-> src.bibliography[i].id]]
    ELSE TexBibliography(src.bibliography, 1)

\* JATS: old_key_to_new_key[old_bib_key] = new_bib_key, for every bibliography entry
BibKeys(src) ==
    [i \in 1..Len(src.bibliography) |->
        [token |-> src.bibliography[i].id, new |-> BIBREF \o DigitStr(i - 1)]]

\* the reference registry: refkey_map (TEI, LaTeX: combine_ref_maps of the maps of
\* the document), and for JATS old_key_to_new_key after the tables and figures
BuildRefkeyMap(src) ==
    IF src.kind = "tei"
    THEN [i \in 1..Len(src.figures) |->
             [token |-> normalize_grobid_id(src.figures[i].id), type |-> "figure"]]
    ELSE IF src.kind = "jats"
    THEN Renumbered(src.tables, TABREF, 1) \o Renumbered(src.figures, FIGREF, 1)
    ELSE src.ref_maps

\* check_if_citations_are_bracket_style, from the number of bracket style citations
\* in the divisions of the body
IsBracketStyle(src) == src.kind = "tei" /\ src.bracket_cites > BRACKET_STYLE_THRESHOLD

\* the paragraph function of the converter, on the registries handed to it
ConvertParagraph(src, para, bibs, refs) ==
    IF src.kind = "tei"
    THEN tei_process_paragraph(para, Keys(bibs), Keys(refs), IsBracketStyle(src))
    ELSE IF src.kind = "jats"
    THEN jats_process_paragraph(para, refs)
    ELSE tex_process_paragraph(para, bibs, refs)

\* a variant of the lookups that registers every key it misses
AfterLookupsInserting(registry, outcome) ==
    IF \E i \in 1..Len(outcome.paragraph.cite_spans \o outcome.paragraph.ref_spans) :
           (outcome.paragraph.cite_spans \o outcome.paragraph.ref_spans)[i].ref_id = NoneVal
    THEN Append(registry, [token |-> NoneVal])
    ELSE registry

\* what the lookups of a paragraph function leave of a registry: they are 'key in
\* registry', 'registry[key]' behind that test, and 'registry.get(key)'
AfterLookups(registry, outcome) == registry

\* the <ref> elements of the TEI documents: those of TeiRefs and a citation of the
\* bibliography entry whose xml:id is "bx"
DocTeiRefs ==
    TeiRefs \o <<Element("ref", "bibr", <<"#", "b", "x">>, <<"[", "1", "]">>)>>

\* TEI paragraphs: "see [1]-[4]."; the same with the first citing "bx"; "-[4] a [1].",
\* where no <ref> precedes the range marker; a figure reference and a citation; a
\* citation without target
TeiDocParagraphs ==
    [range   |-> BuildParagraph(DocTeiRefs, <<1, 2>>, <<2>>),
     odd_id  |-> BuildParagraph(DocTeiRefs, <<12, 2>>, <<2>>),
     dash    |-> <<NavigableString(<<"-">>)>> \o Children(DocTeiRefs, <<2, 1>>, <<3>>, 1)
                 \o <<NavigableString(<<".">>)>>,
     figure  |-> BuildParagraph(DocTeiRefs, <<8, 5>>, <<3>>),
     untargeted |-> BuildParagraph(DocTeiRefs, <<6>>, <<>>)]

Bibl(id, title) == [id |-> id, title |-> title]

TeiDocuments ==
    {[kind |-> "tei", bibliography |-> bibliography,
      figures |-> <<[id |-> <<"f", "i", "g", "_", "0">>]>>,
      bracket_cites |-> bracket_cites,
      abstract |-> abstract, body |-> body, back_matter |-> back_matter] :
        bibliography \in
            {<<Bibl(<<"b", "0">>, <<"T">>), Bibl(<<"b", "1">>, <<"T">>),
               Bibl(<<"b", "2">>, <<"T">>), Bibl(<<"b", "3">>, <<"T">>),
               Bibl(<<"b", "7">>, <<>>)>>,
             <<Bibl(<<"b", "0">>, <<"T">>), Bibl(<<"b", "3">>, <<"T">>),
               Bibl(<<"b", "x">>, <<"T">>)>>,
             <<>>},
        bracket_cites \in {0, BRACKET_STYLE_THRESHOLD + 1},
        abstract \in {<<>>, TeiDocParagraphs.range, TeiDocParagraphs.figure},
        body \in {TeiDocParagraphs.range, TeiDocParagraphs.odd_id, TeiDocParagraphs.dash},
        back_matter \in {<<>>, TeiDocParagraphs.untargeted}}

\* JATS paragraphs: a citation of B1 and a reference to figure F1; a citation of the
\* unknown B9 and one without rid; a table reference with an empty rid
JatsDocParagraphs ==
    [known   |-> BuildParagraph(JatsEls, <<1, 4>>, <<3>>),
     unknown |-> BuildParagraph(JatsEls, <<2, 3>>, <<3>>),
     empty   |-> BuildParagraph(JatsEls, <<5>>, <<>>)]

Blob(id, label, caption) == [id |-> id, label |-> label, caption |-> caption]

JatsDocuments ==
    {[kind |-> "jats", bibliography |-> bibliography,
      tables |-> <<Blob(<<"T", "1">>, <<"T">>, <<>>)>>,
      figures |-> figures,
      abstract |-> abstract, body |-> body, back_matter |-> <<>>] :
        bibliography \in {<<>>, <<[id |-> <<"B", "1">>]>>},
        figures \in {<<Blob(<<"F", "1">>, <<"F">>, <<"c">>)>>,
                     <<Blob(<<"F", "0">>, <<>>, <<"c">>), Blob(<<"F", "1">>, <<"F">>, <<"c">>)>>},
        abstract \in {<<>>, JatsDocParagraphs.known, JatsDocParagraphs.unknown},
        body \in {JatsDocParagraphs.known, JatsDocParagraphs.unknown,
                  JatsDocParagraphs.empty}}

\* LaTeX paragraphs: a citation of bid0 and a figure reference; a citation of the
\* unknown bid7 and an inline formula
TexDocParagraphs ==
    [known   |-> BuildParagraph(TexEls, <<1, 3>>, <<3>>),
     unknown |-> BuildParagraph(TexEls, <<2, 5>>, <<3>>)]

TexDocuments ==
    {[kind |-> "tex", bibliography |-> bibliography, ref_maps |-> ref_maps,
      abstract |-> abstract, body |-> body, back_matter |-> <<>>] :
        bibliography \in {<<>>,
                          <<[id |-> <<"b", "i", "d", "0">>, parsed |-> TRUE],
                            [id |-> <<"b", "i", "d", "7">>, parsed |-> FALSE]>>},
        ref_maps \in {<<>>, TexRefMap},
        abstract \in {<<>>, TexDocParagraphs.known, TexDocParagraphs.unknown},
        body \in {TexDocParagraphs.known, TexDocParagraphs.unknown}}

\* no paragraph is being converted on its own
IdleParagraph ==
    /\ converter = "none"
    /\ para_el = <<>>
    /\ bracket = FALSE
    /\ enclosing = "p"
    /\ id_text = <<>>
    /\ returned = FALSE
    /\ result = NoOutcome

\* a convert function is entered: old_key_to_new_key = {}, no registry yet
InitDocument ==
    /\ IdleParagraph
    /\ IdlePaper
    /\ IdleGrobid
    /\ IdleEngine
    /\ IdleTei
    /\ IdleId
    /\ IdleSections
    /\ source \in TeiDocuments \cup JatsDocuments \cup TexDocuments
    /\ doc_step = 1
    /\ bibkey_map = <<>>
    /\ refkey_map = <<>>
    /\ sections = <<>>
    /\ doc_raised = ""

Running == source.kind # "none" /\ doc_raised = "" /\ doc_step <= Len(DocSteps(source.kind))

\* bibkey_map = {...} (TEI, LaTeX); the loop over back_dict['bib_entries'] (JATS),
\* which also enters the keys in old_key_to_new_key
BuildBibliography ==
    /\ Running
    /\ DocSteps(source.kind)[doc_step] = "bibliography"
    /\ bibkey_map' = BuildBibkeyMap(source)
    /\ refkey_map' = IF source.kind = "jats" THEN refkey_map \o BibKeys(source)
                     ELSE refkey_map
    /\ doc_step' = doc_step + 1
    /\ UNCHANGED <<source, sections, doc_raised, paragraph_vars, paper_vars, grobid_vars,
                   engine_vars, tei_vars, id_vars, section_vars>>

\* refkey_map = extract_figures_and_tables_from_tei_xml(soup) (TEI), the loops over
\* table_blobs and figure_blobs (JATS), combine_ref_maps(...) (LaTeX)
BuildReferences ==
    /\ Running
    /\ DocSteps(source.kind)[doc_step] = "references"
    /\ refkey_map' = refkey_map \o BuildRefkeyMap(source)
    /\ doc_step' = doc_step + 1
    /\ UNCHANGED <<source, bibkey_map, sections, doc_raised, paragraph_vars, paper_vars,
                   grobid_vars, engine_vars, tei_vars, id_vars, section_vars>>

\* the abstract, the body, the back matter: the paragraph function runs on the
\* registries as they are; an exception it raises leaves the convert function
ConvertPart ==
    /\ Running
    /\ DocSteps(source.kind)[doc_step] \in PARTS
    /\ LET part    == DocSteps(source.kind)[doc_step]
           outcome == ConvertParagraph(source, source[part], bibkey_map, refkey_map)
       IN  IF ElText(source[part]) = <<>>
           THEN /\ doc_step' = doc_step + 1
                /\ UNCHANGED <<sections, doc_raised, bibkey_map, refkey_map>>
           ELSE /\ sections' = Append(sections, [part |-> part, outcome |-> outcome])
                /\ doc_raised' = outcome.raised
                /\ doc_step' = doc_step + 1
                /\ bibkey_map' = AfterLookups(bibkey_map, outcome)
                /\ refkey_map' = AfterLookups(refkey_map, outcome)
    /\ UNCHANGED <<source, paragraph_vars, paper_vars, grobid_vars, engine_vars, tei_vars, id_vars, section_vars>>

\* return Paper(..., bib_entries=bibkey_map, ref_entries=refkey_map)
ReturnPaper ==
    /\ Running
    /\ DocSteps(source.kind)[doc_step] = "return"
    /\ doc_step' = doc_step + 1
    /\ UNCHANGED <<source, bibkey_map, refkey_map, sections, doc_raised, paragraph_vars,
                   paper_vars, grobid_vars, engine_vars, tei_vars, id_vars, section_vars>>

NextDocument ==
    \/ BuildBibliography
    \/ BuildReferences
    \/ ConvertPart
    \/ ReturnPaper

SpecDocument == InitDocument /\ [][NextDocument]_vars

(***************************************************************************)
(* C12: failures on one <ref> element of a TEI paragraph.                  *)
(***************************************************************************)
\* the outcome of a converted part (NoOutcome when the part was not converted)
PartOutcome(part) ==
    IF \E i \in 1..Len(sections) : sections[i].part = part
    THEN sections[CHOOSE i \in 1..Len(sections) : sections[i].part = part].outcome
    ELSE NoOutcome

Converted(part) == \E i \in 1..Len(sections) : sections[i].part = part

\* C12: in a TEI document no exception raised while one citation or reference
\* element is handled (a missing attribute or child, a malformed identifier)
\* escapes process_paragraph: every paragraph reached is produced and the
\* conversion is not ended by an exception.
C12_ElementFailureConfined ==
    source.kind = "tei" =>
        /\ doc_raised = ""
        /\ \A i \in 1..Len(sections) : sections[i].outcome.raised = ""

\* the element that finds no <ref> before its range marker was skipped and the next
\* element was handled: "-[4] a [1]." comes out as "-[4] a [1] ." with the one span [1]
C12_MissingSiblingSkipped ==
    /\ source.kind = "tei" /\ IsBracketStyle(source)
    /\ source.body = TeiDocParagraphs.dash
    /\ {BIBREF \o <<"0">>, BIBREF \o <<"3">>} \subseteq Keys(bibkey_map)
    /\ Converted("body") /\ PartOutcome("body").raised = ""
    /\ Len(PartOutcome("body").paragraph.cite_spans) = 1
    /\ PartOutcome("body").paragraph.cite_spans[1].text = <<"[", "1", "]">>
    /\ PartOutcome("body").paragraph.text
           = <<"-", "[", "4", "]", " ", "a", " ", "[", "1", "]", " ", ".">>

(***************************************************************************)
(* C13: equations whose conversion to MathML fails.                        *)
(***************************************************************************)
\* the conversion of the formula to MathML is attempted and fails: latex2mathml
\* raises on the <texmath> of a LaTeX formula; a JATS inline formula has <tex-math>
\* and no <mml:math>
ConversionFails(node) ==
    \/ converter = "tex" /\ node.name = "formula" /\ node.mathml = <<>>
    \/ converter = "jats" /\ node.name = "inline-formula"
           /\ node.mathml = <<>> /\ node.latex # <<>>

\* the MathML value of an equation span (a numbered list item keeps no mathml key)
MathmlOf(span) == IF "mathml" \in DOMAIN span THEN span.mathml ELSE <<>>

\* C13: a LaTeX or JATS paragraph holding an equation whose conversion from LaTeX
\* to MathML fails is still produced, and the span of that equation carries its
\* text and LaTeX with an empty MathML value.
C13_EquationFailureDowngrades ==
    (converter \in {"tex", "jats"} /\ returned) =>
        \A p \in 1..Len(para_el) :
            ConversionFails(para_el[p]) =>
                /\ result.raised = ""
                /\ \E i \in 1..Len(result.paragraph.eq_spans) :
                       /\ result.paragraph.eq_spans[i].text = para_el[p].text
                       /\ result.paragraph.eq_spans[i].latex = para_el[p].latex
                       /\ MathmlOf(result.paragraph.eq_spans[i]) = <<>>

\* a LaTeX paragraph with such an equation has been produced, MathML empty
C13_TexDowngradeReached ==
    /\ converter = "tex" /\ returned /\ result.raised = ""
    /\ \E p \in 1..Len(para_el) : ConversionFails(para_el[p])
    /\ \E i \in 1..Len(result.paragraph.eq_spans) :
           /\ result.paragraph.eq_spans[i].latex = <<"\\", "y">>
           /\ MathmlOf(result.paragraph.eq_spans[i]) = <<>>

(***************************************************************************)
(* C14, C15: the registries and the paragraphs resolved against them.      *)
(***************************************************************************)
\* every span of the parts converted so far
ConvertedSpans ==
    UNION {{AllSpans(sections[i].outcome.paragraph)[j] :
                j \in 1..Len(AllSpans(sections[i].outcome.paragraph))} :
           i \in 1..Len(sections)}

CompleteBibkeyMap(src) == BuildBibkeyMap(src)

CompleteRefkeyMap(src) ==
    IF src.kind = "jats" THEN BuildRefkeyMap(src) \o BibKeys(src) ELSE BuildRefkeyMap(src)

\* C15: in each converter, when a part (abstract, body, back matter) is converted
\* both registries are complete, so every part comes out as the paragraph function
\* makes it against the complete registries: a citation or cross-reference to a
\* registered entry has that entry's canonical id wherever it occurs.
C15_RegistriesBuiltFirst ==
    /\ (Running /\ DocSteps(source.kind)[doc_step] \in PARTS) =>
           /\ bibkey_map = CompleteBibkeyMap(source)
           /\ refkey_map = CompleteRefkeyMap(source)
    /\ \A i \in 1..Len(sections) :
           sections[i].outcome =
               ConvertParagraph(source, source[sections[i].part],
                                CompleteBibkeyMap(source), CompleteRefkeyMap(source))

\* a JATS abstract citing the registered B1 came out with ref_id None, and the body
\* citing the same entry with ref_id BIBREF0
C15_AbstractUnresolvedReached ==
    /\ source.kind = "jats" /\ doc_raised = ""
    /\ source.abstract = JatsDocParagraphs.known /\ source.body = JatsDocParagraphs.known
    /\ Converted("abstract") /\ Converted("body")
    /\ PartOutcome("abstract").paragraph.cite_spans[1].ref_id = NoneVal
    /\ PartOutcome("body").paragraph.cite_spans[1].ref_id = BIBREF \o <<"0">>

(***************************************************************************)
(* C16: spans of length zero.                                              *)
(***************************************************************************)
\* C16: no paragraph a converter emits holds a span with start = end in
\* cite_spans, ref_spans or eq_spans.
C16_NoZeroLengthSpan ==
    Emitted =>
        \A i \in 1..Len(AllSpans(result.paragraph)) :
            AllSpans(result.paragraph)[i].start # AllSpans(result.paragraph)[i].end

\* the spans of the LaTeX converter cover their token and are never empty
C16_TexSpansNonEmptyReached ==
    /\ Emitted /\ converter = "tex"
    /\ Len(result.paragraph.cite_spans) > 0 /\ Len(result.paragraph.eq_spans) > 0
    /\ \A i \in 1..Len(AllSpans(result.paragraph)) :
           AllSpans(result.paragraph)[i].start < AllSpans(result.paragraph)[i].end

(***************************************************************************)
(* The substitution engine on its own: sub_spans_and_update_indices is     *)
(* called once with a text and a list of (start, end, token, surface)      *)
(* tuples.  subbed records the call: the argument as given and what the    *)
(* call returned; spans_to_replace is the caller's list, which the call    *)
(* sorts and replace_refspans rewrites in place.                           *)
(***************************************************************************)
\* the longest list of spans handed to the engine
MaxSpans == 3

EngineTexts ==
    { <<"a", "b", "c", "d", "e", "f", "g">>,
      <<"T", "0", "T", "1", " ", "T", "2">> }

\* (start, end) of the candidate spans: abutting, apart and overlapping ones
EnginePositions ==
    { <<0, 2>>, <<2, 4>>, <<5, 7>>, <<1, 3>>, <<3, 6>>, <<4, 5>> }

\* surface forms shorter than, as long as and longer than the tokens
EngineSurfaces == { <<>>, <<"x">>, <<"[", "1", "]">> }

EngineSpan(text, pos, surface) ==
    [start |-> pos[1], end |-> pos[2], token |-> Slice(text, pos[1], pos[2]),
     surface |-> surface]

\* the lists of at most MaxSpans spans of the text, in any order, with distinct starts
EngineSpanLists(text) ==
    UNION { { [i \in 1..n |-> EngineSpan(text, f[i][1], f[i][2])] :
                f \in { g \in [1..n -> EnginePositions \X EngineSurfaces] :
                          \A i, j \in 1..n : i # j => g[i][1] # g[j][1] } } :
            n \in 0..MaxSpans }

\* no span starts strictly before the end of a span that starts earlier
NonOverlapping(spans) ==
    \A i, j \in 1..Len(spans) :
        spans[i].start < spans[j].start => spans[i].end <= spans[j].start

\* the text with every token replaced by its surface form, from the last span to
\* the first, so that no offset has to be tracked
RECURSIVE TokensReplaced(_, _)
TokensReplaced(text, sorted) ==
    IF Len(sorted) = 0 THEN text
    ELSE LET e == sorted[Len(sorted)]
         IN  TokensReplaced(Slice(text, 0, e.start) \o e.surface \o From(text, e.end),
                            SubSeq(sorted, 1, Len(sorted) - 1))

\* the caller's list after the call: sorted in place (line 97), then rewritten by
\* replace_refspans (line 63), unless the first assertion stopped the call
ListAfterCall(spans, text) ==
    IF ~SpansMatchText(spans, text) \/ ~DistinctStarts(spans) THEN spans
    ELSE ShiftSpans(SortByStart(spans), 1, <<>>, <<>>, <<>>)

InitEngine ==
    /\ IdleParagraph
    /\ IdlePaper
    /\ IdleGrobid
    /\ IdleDocument
    /\ IdleTei
    /\ IdleId
    /\ IdleSections
    /\ full_string \in EngineTexts
    /\ spans_to_replace \in EngineSpanLists(full_string)
    /\ subbed = [called |-> FALSE]

SubSpansAndUpdateIndices ==
    /\ ~subbed.called
    /\ LET subbed_to == sub_spans_and_update_indices(spans_to_replace, full_string)
       IN  subbed' = [called |-> TRUE, given |-> spans_to_replace, ok |-> subbed_to.ok,
                      text |-> subbed_to.text, spans |-> subbed_to.spans]
    /\ spans_to_replace' = ListAfterCall(spans_to_replace, full_string)
    /\ UNCHANGED <<full_string, paragraph_vars, paper_vars, grobid_vars, document_vars,
                   tei_vars, id_vars, section_vars>>

NextEngine == SubSpansAndUpdateIndices

SpecEngine == InitEngine /\ [][NextEngine]_vars

\* every returned span covers its surface form in the returned text
SpansCoverSurface(text, spans) ==
    \A i \in 1..Len(spans) :
        /\ 0 <= spans[i].start /\ spans[i].start <= spans[i].end /\ spans[i].end <= Len(text)
        /\ Slice(text, spans[i].start, spans[i].end) = spans[i].surface

(***************************************************************************)
(* C17: substitution of non-overlapping token spans.                       *)
(***************************************************************************)
\* C17: called on pairwise non-overlapping token spans (distinct starts, each
\* covering its token), sub_spans_and_update_indices returns the text with every
\* token replaced by its surface form and all other characters kept in order, and
\* one span per given span, in ascending start order, each covering its surface
\* form in the new text.
C17_NonOverlappingSubstituted ==
    (subbed.called /\ NonOverlapping(subbed.given)) =>
        LET sorted == SortByStart(subbed.given)
        IN  /\ subbed.ok
            /\ subbed.text = TokensReplaced(full_string, sorted)
            /\ Len(subbed.spans) = Len(sorted)
            /\ \A i \in 1..Len(sorted) :
                   /\ subbed.spans[i].token = sorted[i].token
                   /\ subbed.spans[i].surface = sorted[i].surface
            /\ \A i \in 1..(Len(sorted) - 1) :
                   subbed.spans[i].start < subbed.spans[i + 1].start
                   \/ (subbed.spans[i].start = subbed.spans[i + 1].start
                       /\ subbed.spans[i].surface = <<>>)
            /\ SpansCoverSurface(subbed.text, subbed.spans)

\* three spans given out of order, two of them abutting, with a longer, an empty
\* and an equally long surface form, have been substituted
C17_AbuttingOutOfOrderReached ==
    /\ subbed.called /\ subbed.ok
    /\ full_string = <<"a", "b", "c", "d", "e", "f", "g">>
    /\ subbed.given = << EngineSpan(full_string, <<5, 7>>, <<"x">>),
                         EngineSpan(full_string, <<2, 4>>, <<>>),
                         EngineSpan(full_string, <<0, 2>>, <<"[", "1", "]">>) >>
    /\ subbed.text = <<"[", "1", "]", "e", "x">>
    /\ Len(subbed.spans) = 3
    /\ subbed.spans[1].start = 0 /\ subbed.spans[1].end = 3
    /\ subbed.spans[2].start = 3 /\ subbed.spans[2].end = 3
    /\ subbed.spans[3].start = 4 /\ subbed.spans[3].end = 5

(***************************************************************************)
(* C18: overlapping input spans.                                           *)
(***************************************************************************)
\* C18: when a given span starts strictly before the end of an earlier one,
\* sub_spans_and_update_indices does not raise, drops the overlapping span, and
\* every span it returns covers its surface form in the new text.
C18_OverlapDefended ==
    (subbed.called /\ ~NonOverlapping(subbed.given)) =>
        /\ subbed.ok
        /\ SpansCoverSurface(subbed.text, subbed.spans)

\* on overlapping spans no assertion fails
C18_OverlapDoesNotRaise ==
    (subbed.called /\ ~NonOverlapping(subbed.given)) => subbed.ok

\* the overlapping span is left out of the text but returned all the same
C18_DroppedSpanReturned ==
    /\ subbed.called /\ subbed.ok
    /\ full_string = <<"a", "b", "c", "d", "e", "f", "g">>
    /\ subbed.given = << EngineSpan(full_string, <<0, 2>>, <<"x">>),
                         EngineSpan(full_string, <<1, 3>>, <<"[", "1", "]">>) >>
    /\ subbed.text = <<"x", "c", "d", "e", "f", "g">>
    /\ Len(subbed.spans) = 2
    /\ subbed.spans[2].surface = <<"[", "1", "]">>
    /\ Slice(subbed.text, subbed.spans[2].start, subbed.spans[2].end) # <<"[", "1", "]">>

(***************************************************************************)
(* C19, C20: bracket-style range expansion in a TEI paragraph               *)
(* "see <ref i> - <ref j>." or "see <ref i> a <ref j>."                     *)
(***************************************************************************)
\* element i of TeiRefs is a citation with a target found in the bibliography
Registered(i) ==
    /\ TeiRefs[i].type = "bibr"
    /\ TeiRefs[i].target # <<>>
    /\ normalize_grobid_id(TeiRefs[i].target) \in TeiBibs

RangeEnds(i, j) == get_surface_range(Strip(TeiRefs[i].text), Strip(TeiRefs[j].text))

\* the pairs [a], [b] of registered citations with 1 < b - a < 20
RangePairs ==
    { p \in (1..Len(TeiRefs)) \X (1..Len(TeiRefs)) :
        Registered(p[1]) /\ Registered(p[2]) /\ RangeEnds(p[1], p[2]).ok }

\* the paragraph "see <ref i>-<ref j>." has been converted in bracket mode
MarkedPairConverted(i, j) ==
    /\ returned /\ converter = "tei" /\ bracket
    /\ para_el = BuildParagraph(TeiRefs, <<i, j>>, <<2>>)

BracketSurface(k) == <<"[">> \o DigitStr(k) \o <<"]">>

\* C19: when the range [a]-[b] is expanded (expansion marker between the two
\* citations, 1 < b - a < 20), exactly one citation span is emitted for each
\* integer k of a..b, with text [k]; each is looked up in the bibliography on its
\* own and has ref_id None when its entry is missing.
C19_OneSpanPerInteger ==
    \A p \in RangePairs :
        MarkedPairConverted(p[1], p[2]) =>
            LET range == RangeEnds(p[1], p[2])
                first == ToInt(From(normalize_grobid_id(TeiRefs[p[1]].target), 6))
                spans == result.paragraph.cite_spans
            IN  /\ result.raised = ""
                /\ Len(spans) = range.hi - range.lo + 1
                /\ \A n \in 1..Len(spans) :
                       /\ spans[n].text = BracketSurface(range.lo + n - 1)
                       /\ spans[n].ref_id =
                              IF BIBREF \o DigitStr(first + n - 1) \in TeiBibs
                              THEN BIBREF \o DigitStr(first + n - 1) ELSE NoneVal

\* [1]-[6] with targets #b0 and #b5 came out as six spans, the fifth (BIBREF4 is
\* not in the bibliography) with ref_id None
C19_MissingEntryNoneReached ==
    /\ MarkedPairConverted(1, 7) /\ result.raised = ""
    /\ Len(result.paragraph.cite_spans) = 6
    /\ result.paragraph.cite_spans[4].ref_id = BIBREF \o <<"3">>
    /\ result.paragraph.cite_spans[5].ref_id = NoneVal
    /\ result.paragraph.cite_spans[5].text = <<"[", "5", "]">>
    /\ result.paragraph.cite_spans[6].ref_id = BIBREF \o <<"5">>

\* [6]-[25] with targets #b5 and #b1: the range 6..25 is accepted, the range of
\* identifiers BIBREF5..BIBREF1 is empty, and no span at all is emitted
C19_NoSpanForRangeReached ==
    /\ MarkedPairConverted(7, 3) /\ result.raised = ""
    /\ Len(result.paragraph.cite_spans) = 0

\* the earlier citation [a] waits for the element after the marker: it is
\* registered and looks like a bracket citation
Waits(i) == Registered(i) /\ LooksBracketed(Strip(TeiRefs[i].text))

\* the pairs of citations for which the range precondition fails: the second is
\* not a registered bracket citation, or the numbers are not a range
FailedRangePairs ==
    { p \in (1..Len(TeiRefs)) \X (1..Len(TeiRefs)) :
        /\ Waits(p[1])
        /\ TeiRefs[p[2]].type = "bibr"
        /\ p \notin RangePairs }

\* the span of element i of TeiRefs, cited on its own
OwnSpan(span, i) ==
    /\ span.text = Strip(TeiRefs[i].text)
    /\ span.ref_id = IF Registered(i) THEN normalize_grobid_id(TeiRefs[i].target)
                     ELSE NoneVal

\* C20: in bracket mode, a citation followed by an expansion marker and a second
\* citation for which the range precondition fails is not expanded: the
\* paragraph has exactly the span of the earlier citation and the span of the
\* current one.
C20_BothEmittedIndependently ==
    \A p \in FailedRangePairs :
        MarkedPairConverted(p[1], p[2]) =>
            /\ result.raised = ""
            /\ Len(result.paragraph.cite_spans) = 2
            /\ OwnSpan(result.paragraph.cite_spans[1], p[1])
            /\ OwnSpan(result.paragraph.cite_spans[2], p[2])

\* the same for a second citation that is a registered bracket citation (only
\* the numbers fail the precondition)
C20_BothEmittedWhenGapFails ==
    \A p \in FailedRangePairs :
        (MarkedPairConverted(p[1], p[2]) /\ Waits(p[2])) =>
            /\ result.raised = ""
            /\ Len(result.paragraph.cite_spans) = 2
            /\ OwnSpan(result.paragraph.cite_spans[1], p[1])
            /\ OwnSpan(result.paragraph.cite_spans[2], p[2])

\* [1]-[25]: the gap is too large, the two citations have their own spans
C20_GapTooLargeReached ==
    /\ MarkedPairConverted(1, 3) /\ result.raised = ""
    /\ Len(result.paragraph.cite_spans) = 2
    /\ result.paragraph.cite_spans[1].text = <<"[", "1", "]">>
    /\ result.paragraph.cite_spans[2].text = <<"[", "2", "5", "]">>

\* [1]-[8] with [8] not in the bibliography: [8] has its span, [1] has none and
\* stays in the text
C20_EarlierCitationLostReached ==
    /\ MarkedPairConverted(1, 5) /\ result.raised = ""
    /\ Len(result.paragraph.cite_spans) = 1
    /\ result.paragraph.cite_spans[1].text = <<"[", "8", "]">>
    /\ result.paragraph.cite_spans[1].ref_id = NoneVal

(***************************************************************************)
(* C21: a citation that does not look bracket-shaped, in bracket mode.     *)
(***************************************************************************)
\* the node is a citation whose surface form is not a "valid bracket span"
PlainCitation(node) ==
    /\ node.name = "ref" /\ node.type = "bibr"
    /\ LET surface == Strip(node.text)
       IN  \/ surface = <<>>
           \/ surface[1] # "[" /\ surface[Len(surface)] \notin {"]", ","}

\* the text holds the word at some offset
Holds(text, word) ==
    \E i \in 0..(Len(text) - Len(word)) : Slice(text, i, i + Len(word)) = word

\* C21 as stated: in bracket mode, a citation element whose surface form does not
\* look bracket-shaped has no citation span, and its surface text stays in the
\* paragraph text.
C21_PlainCitationHasNoSpan ==
    (converter = "tei" /\ returned /\ bracket) =>
        \A p \in 1..Len(para_el) :
            PlainCitation(para_el[p]) =>
                /\ result.raised = ""
                /\ SpansOfElement(result, para_el[p].id) = {}
                /\ Holds(result.paragraph.text, Strip(para_el[p].text))

\* C21 as amended: in bracket mode, a citation element whose target is in the
\* bibliography and whose surface form does not look bracket-shaped has no
\* citation span, and its surface text stays in the paragraph text.  (Without a
\* target, or with a target the bibliography lacks, the element has one citation
\* span with ref_id None, whatever its surface form.)
C21_RegisteredPlainCitationHasNoSpan ==
    (converter = "tei" /\ returned /\ bracket) =>
        \A p \in 1..Len(para_el) :
            (PlainCitation(para_el[p]) /\ ~Unresolved(para_el[p], TeiBibs)) =>
                /\ result.raised = ""
                /\ SpansOfElement(result, para_el[p].id) = {}
                /\ Holds(result.paragraph.text, Strip(para_el[p].text))

\* "see Sm." with target #b0, in bracket mode, came out as text without a span
C21_Witness ==
    /\ converter = "tei" /\ returned /\ bracket /\ result.raised = ""
    /\ para_el = BuildParagraph(TeiRefs, <<4>>, <<>>)
    /\ result.paragraph.cite_spans = <<>>
    /\ result.paragraph.text = <<"s", "e", "e", " ", "S", "m", " ", ".">>

(***************************************************************************)
(* C24: the placeholder tokens of one paragraph are pairwise distinct.     *)
(***************************************************************************)
\* the tokens the two passes handed out, in the order of the side tables
TokensHandedOut(outcome) ==
    [i \in 1..Len(outcome.ref_map \o outcome.cite_map) |->
        (outcome.ref_map \o outcome.cite_map)[i].token]

\* C24: within one paragraph's substitution pass no two placeholder tokens are
\* equal: the tokens of process_references_in_paragraph and of
\* process_citations_in_paragraph, those of the members of an expanded range
\* included, are pairwise distinct.
C24_TokensDistinct ==
    (converter = "tei" /\ returned) =>
        \A i, j \in 1..Len(TokensHandedOut(result)) :
            i # j => TokensHandedOut(result)[i] # TokensHandedOut(result)[j]

\* a range expanded into six tokens, and a paragraph with a reference token and
\* a citation token, have gone through the passes
C24_Witness ==
    /\ converter = "tei" /\ returned /\ result.raised = ""
    /\ \/ /\ bracket
          /\ para_el = BuildParagraph(TeiRefs, <<1, 7>>, <<2>>)
          /\ Len(result.cite_map) = 6
          /\ result.cite_map[6].token = CITETOKEN \o <<"5">>
       \/ /\ para_el = BuildParagraph(TeiRefs, <<8, 1>>, <<3>>)
          /\ Len(result.ref_map) = 1 /\ Len(result.cite_map) = 1

(***************************************************************************)
(* C25: placeholder tokens and the text of the paragraph.                  *)
(***************************************************************************)
\* the occurrences of the tokens of a family that token discovery finds
Discovered(outcome, prefix) == FindTokens(outcome.token_text, prefix, 0)

\* C25: token discovery in process_paragraph finds exactly the tokens the
\* substitution pass inserted: every CITETOKENn and REFTOKENn found in the
\* linearized text has an entry in the side table and is the one occurrence of the
\* token inserted for that entry's element; no text of the paragraph is taken
\* for a token.
C25_DiscoveredAreInserted ==
    (converter = "tei" /\ returned /\ result.raised \in {"", "KeyError"}) =>
        /\ result.raised = ""
        /\ Len(Discovered(result, CITETOKEN)) = Len(result.cite_map)
        /\ Len(Discovered(result, REFTOKEN)) = Len(result.ref_map)

\* the same for paragraphs whose own text holds no CITETOKEN / REFTOKEN string
C25_DiscoveredAreInsertedInPlainText ==
    (/\ converter = "tei" /\ returned /\ result.raised \in {"", "KeyError"}
     /\ ~HoldsToken(CollapseSpaces(ElText(para_el)), CITETOKEN)
     /\ ~HoldsToken(CollapseSpaces(ElText(para_el)), REFTOKEN)) =>
        /\ result.raised = ""
        /\ Len(Discovered(result, CITETOKEN)) = Len(result.cite_map)
        /\ Len(Discovered(result, REFTOKEN)) = Len(result.ref_map)

\* "see CITETOKEN0 and [1].": the words of the text became a second citation of
\* BIBREF0
C25_TextTakenForCitationReached ==
    /\ converter = "tei" /\ returned /\ result.raised = ""
    /\ ElText(para_el) = <<"s", "e", "e", " ">> \o CITETOKEN
                            \o <<"0", " ", "a", "n", "d", " ", "[", "1", "]", ".">>
    /\ Len(result.cite_map) = 1
    /\ Len(result.paragraph.cite_spans) = 2
    /\ result.paragraph.cite_spans[1].ref_id = BIBREF \o <<"0">>
    /\ result.paragraph.cite_spans[1].start = 4
    /\ result.paragraph.text = <<"s", "e", "e", " ", "[", "1", "]", " ", "a", "n", "d",
                                 " ", "[", "1", "]", " ", ".">>

\* "see CITETOKEN7 and [1].": the lookup of the words of the text raises KeyError
C25_TextRaisesKeyErrorReached ==
    /\ converter = "tei" /\ returned /\ result.raised = "KeyError"
    /\ Len(result.cite_map) = 1

(***************************************************************************)
(* convert_tei_xml_soup_to_s2orc_json at the level of the divisions of the *)
(* document.  A part of the soup (abstract, body, back) is the table of    *)
(* its nodes in document order; a node names its parent (0: the part       *)
(* itself).  A <p> carries its children in el; a decomposed node is gone.  *)
(***************************************************************************)
Div(parent, type) ==
    [name |-> "div", parent |-> parent, type |-> type, n |-> NoneVal, text |-> <<>>,
     el |-> <<>>, gone |-> FALSE]

HeadNode(parent, n, text) ==
    [name |-> "head", parent |-> parent, type |-> <<>>, n |-> n, text |-> text,
     el |-> <<>>, gone |-> FALSE]

PNode(parent, el) ==
    [name |-> "p", parent |-> parent, type |-> <<>>, n |-> NoneVal, text |-> <<>>,
     el |-> el, gone |-> FALSE]

\* node i is below node d
RECURSIVE IsUnder(_, _, _)
IsUnder(nodes, i, d) ==
    \/ d = 0
    \/ nodes[i].parent = d
    \/ nodes[i].parent # 0 /\ IsUnder(nodes, nodes[i].parent, d)

\* d.find_all(name): the nodes called name below d, in document order, from node i on
RECURSIVE FindAllFrom(_, _, _, _)
FindAllFrom(nodes, d, name, i) ==
    IF i > Len(nodes) THEN <<>>
    ELSE (IF nodes[i].name = name /\ ~nodes[i].gone /\ IsUnder(nodes, i, d)
          THEN <<i>> ELSE <<>>)
         \o FindAllFrom(nodes, d, name, i + 1)

FindAllBelow(nodes, d, name) == FindAllFrom(nodes, d, name, 1)

\* d.name, as in div.div, subdiv.head, div.p: the first such node below d, 0 for None
FirstBelow(nodes, d, name) ==
    IF Len(FindAllBelow(nodes, d, name)) = 0 THEN 0 ELSE FindAllBelow(nodes, d, name)[1]

\* for tag in div: the children of d, in document order, from node i on
RECURSIVE TagsFrom(_, _, _)
TagsFrom(nodes, d, i) ==
    IF i > Len(nodes) THEN <<>>
    ELSE (IF nodes[i].parent = d /\ ~nodes[i].gone THEN <<i>> ELSE <<>>)
         \o TagsFrom(nodes, d, i + 1)

\* the nodes below d that carry text: heads and paragraphs
RECURSIVE TextNodesFrom(_, _, _)
TextNodesFrom(nodes, d, i) ==
    IF i > Len(nodes) THEN <<>>
    ELSE (IF nodes[i].name \in {"head", "p"} /\ ~nodes[i].gone /\ IsUnder(nodes, i, d)
          THEN <<i>> ELSE <<>>)
         \o TextNodesFrom(nodes, d, i + 1)

\* the children of the element made of the nodes tags: those of its paragraphs, and
\* the text of its heads
RECURSIVE ElementOf(_, _)
ElementOf(nodes, tags) ==
    IF Len(tags) = 0 THEN <<>>
    ELSE (IF nodes[Head(tags)].name = "p" THEN nodes[Head(tags)].el
          ELSE <<NavigableString(nodes[Head(tags)].text)>>)
         \o ElementOf(nodes, Tail(tags))

\* the paragraph element of node t: a <p>, or a <div> handed to process_paragraph
TagElement(nodes, t) ==
    IF nodes[t].name = "p" THEN nodes[t].el
    ELSE ElementOf(nodes, TextNodesFrom(nodes, t, 1))

\* the paragraphs of node t
ParagraphsOf(nodes, t) ==
    IF nodes[t].name = "p" THEN {t}
    ELSE {FindAllBelow(nodes, t, "p")[k] : k \in 1..Len(FindAllBelow(nodes, t, "p"))}

(***************************************************************************)
(* check_if_citations_are_bracket_style                                    *)
(***************************************************************************)
CharAt(t, i) == IF i >= 1 /\ i <= Len(t) THEN t[i] ELSE ""

\* [1-9]\d{0,2} at position i of t (from 1): the length matched, 0 for no match
NumberAt(t, i) ==
    IF IsDigit(CharAt(t, i)) /\ CharAt(t, i) # "0"
    THEN 1 + Min(2, DigitRun(SubSeq(t, i + 1, Len(t))))
    ELSE 0

\* [,;\-\s]+ at position i of t: the length matched
RECURSIVE SeparatorsAt(_, _)
SeparatorsAt(t, i) ==
    IF CharAt(t, i) \in {",", ";", "-"} \/ IsSpace(CharAt(t, i))
    THEN 1 + SeparatorsAt(t, i + 1) ELSE 0

\* ([,;\-\s]+[1-9]\d{0,2})*;?\] at position i of t
RECURSIVE BracketTailAt(_, _)
BracketTailAt(t, i) ==
    IF SeparatorsAt(t, i) > 0 /\ NumberAt(t, i + SeparatorsAt(t, i)) > 0
    THEN BracketTailAt(t, i + SeparatorsAt(t, i) + NumberAt(t, i + SeparatorsAt(t, i)))
    ELSE \/ CharAt(t, i) = "]"
         \/ CharAt(t, i) = ";" /\ CharAt(t, i + 1) = "]"

\* bool(BRACKET_REGEX.match(cite_str))
BracketRegexMatch(cite_str) ==
    /\ CharAt(cite_str, 1) = "["
    /\ NumberAt(cite_str, 2) > 0
    /\ BracketTailAt(cite_str, 2 + NumberAt(cite_str, 2))

\* rtag.text.strip() for the <ref type="bibr"> children of a paragraph element
RECURSIVE BibrTexts(_)
BibrTexts(el) ==
    IF Len(el) = 0 THEN <<>>
    ELSE (IF Head(el).name = "ref" /\ Head(el).type = "bibr"
          THEN <<Strip(Head(el).text)>> ELSE <<>>)
         \o BibrTexts(Tail(el))

\* for rtag in div.find_all('ref'): the citations of the paragraphs below the divs
RECURSIVE CiteStringsOf(_, _)
CiteStringsOf(nodes, paras) ==
    IF Len(paras) = 0 THEN <<>>
    ELSE BibrTexts(nodes[Head(paras)].el) \o CiteStringsOf(nodes, Tail(paras))

\* cite_strings: for div in sp.body.find_all('div'), skipping a div with a head
RECURSIVE CiteStrings(_, _)
CiteStrings(nodes, divs) ==
    IF Len(divs) = 0 THEN <<>>
    ELSE (IF FirstBelow(nodes, Head(divs), "head") # 0 THEN <<>>
          ELSE CiteStringsOf(nodes, FindAllBelow(nodes, Head(divs), "p")))
         \o CiteStrings(nodes, Tail(divs))

\* sum(bracket_style)
BracketStyleSum(cite_strings) ==
    Cardinality({k \in 1..Len(cite_strings) : BracketRegexMatch(cite_strings[k])})

\* a classifier for which the threshold itself qualifies
at_least_threshold_is_bracket_style(body) ==
    /\ Len(body) > 0
    /\ BracketStyleSum(CiteStrings(body, FindAllBelow(body, 0, "div")))
           >= BRACKET_STYLE_THRESHOLD

\* check_if_citations_are_bracket_style(sp), sp.body being the node table body
\* (<<>>: no body)
check_if_citations_are_bracket_style(body) ==
    /\ Len(body) > 0
    /\ BracketStyleSum(CiteStrings(body, FindAllBelow(body, 0, "div")))
           > BRACKET_STYLE_THRESHOLD

(***************************************************************************)
(* The walks over the abstract, the body and the back matter.  A walk goes *)
(* through st = [nodes, chunks, raised]: the node table as the calls leave *)
(* it, the paragraphs made, and the exception that ended the walk.         *)
(***************************************************************************)
\* tag.text is not empty
HasText(nodes, t) == ElText(TagElement(nodes, t)) # <<>>

\* the children of a paragraph element after the two substitution passes
AfterPasses(el, bracket_style) ==
    IF ElText(el) = <<>> THEN el
    ELSE process_citations_in_paragraph(
             process_references_in_paragraph(el, TeiFigs).tree, TeiBibs, bracket_style).tree

\* chunks.append(process_paragraph(sp, tag, sections, bib_dict, ref_dict, bracket_style)):
\* the call rewrites the paragraphs of the tag in place
ProcessParagraphAt(st, t, section_names, bracket_style) ==
    LET outcome == tei_process_paragraph(TagElement(st.nodes, t), TeiBibs, TeiFigs, bracket_style)
    IN  IF outcome.raised # "" THEN [st EXCEPT !.raised = outcome.raised]
        ELSE [nodes  |-> [i \in 1..Len(st.nodes) |->
                             IF i \in ParagraphsOf(st.nodes, t)
                             THEN [st.nodes[i] EXCEPT !.el = AfterPasses(@, bracket_style)]
                             ELSE st.nodes[i]],
              chunks |-> Append(st.chunks, [paras |-> ParagraphsOf(st.nodes, t),
                                            section |-> section_names,
                                            paragraph |-> outcome.paragraph]),
              raised |-> ""]

\* "process tags individuals": for tag in div, and for para in find_all('p')
RECURSIVE ParagraphLoop(_, _, _, _)
ParagraphLoop(st, tags, section_names, bracket_style) ==
    IF Len(tags) = 0 \/ st.raised # "" THEN st
    ELSE IF st.nodes[Head(tags)].name = "p" /\ HasText(st.nodes, Head(tags))
    THEN ParagraphLoop(ProcessParagraphAt(st, Head(tags), section_names, bracket_style),
                       Tail(tags), section_names, bracket_style)
    ELSE ParagraphLoop(st, Tail(tags), section_names, bracket_style)

RECURSIVE extract_body_text_from_div(_, _, _, _)
RECURSIVE SubdivLoop(_, _, _, _)

\* for subdiv in div.find_all('div'): subdiv.head is looked up before the call and
\* again, for decompose(), after it
SubdivLoop(st, subdivs, sections_list, bracket_style) ==
    IF Len(subdivs) = 0 \/ st.raised # "" THEN st
    ELSE LET subdiv == Head(subdivs)
             head   == FirstBelow(st.nodes, subdiv, "head")
         IN  IF head # 0
             THEN LET done == extract_body_text_from_div(
                                  st, subdiv,
                                  Append(sections_list,
                                         <<st.nodes[head].n, Strip(st.nodes[head].text)>>),
                                  bracket_style)
                      left == FirstBelow(done.nodes, subdiv, "head")
                  IN  IF done.raised # "" THEN done
                      ELSE IF left = 0    \* None.decompose()
                      THEN [done EXCEPT !.raised = "AttributeError"]
                      ELSE SubdivLoop([done EXCEPT !.nodes[left].gone = TRUE],
                                      Tail(subdivs), sections_list, bracket_style)
             ELSE SubdivLoop(extract_body_text_from_div(st, subdiv, sections_list, bracket_style),
                             Tail(subdivs), sections_list, bracket_style)

extract_body_text_from_div(st, div, sections_list, bracket_style) ==
    LET nested == IF FirstBelow(st.nodes, div, "div") # 0
                  THEN SubdivLoop(st, FindAllBelow(st.nodes, div, "div"), sections_list,
                                  bracket_style)
                  ELSE st
    IN  ParagraphLoop(nested, TagsFrom(nested.nodes, div, 1), sections_list, bracket_style)

NewWalk(nodes) == [nodes |-> nodes, chunks |-> <<>>, raised |-> ""]

\* extract_body_text_from_tei_xml
extract_body_text_from_tei_xml(body, bracket_style) ==
    IF Len(body) = 0 THEN NewWalk(body)
    ELSE extract_body_text_from_div(NewWalk(body), 0, <<>>, bracket_style)

AbstractSection == << <<NoneVal, <<"A", "b", "s", "t", "r", "a", "c", "t">>>> >>

\* for div in sp.abstract.find_all('div')
RECURSIVE AbstractDivLoop(_, _, _)
AbstractDivLoop(st, divs, bracket_style) ==
    IF Len(divs) = 0 \/ st.raised # "" THEN st
    ELSE IF ~HasText(st.nodes, Head(divs)) THEN AbstractDivLoop(st, Tail(divs), bracket_style)
    ELSE IF FirstBelow(st.nodes, Head(divs), "p") # 0
    THEN AbstractDivLoop(ParagraphLoop(st, FindAllBelow(st.nodes, Head(divs), "p"),
                                       AbstractSection, bracket_style),
                         Tail(divs), bracket_style)
    ELSE AbstractDivLoop(ProcessParagraphAt(st, Head(divs), AbstractSection, bracket_style),
                         Tail(divs), bracket_style)

\* extract_abstract_from_tei_xml (an abstract whose text is in divs or paragraphs)
extract_abstract_from_tei_xml(abstract, bracket_style) ==
    IF Len(abstract) = 0 THEN NewWalk(abstract)
    ELSE IF FirstBelow(abstract, 0, "div") # 0
    THEN AbstractDivLoop(NewWalk(abstract), FindAllBelow(abstract, 0, "div"), bracket_style)
    ELSE IF FirstBelow(abstract, 0, "p") # 0
    THEN ParagraphLoop(NewWalk(abstract), FindAllBelow(abstract, 0, "p"),
                       AbstractSection, bracket_style)
    ELSE NewWalk(abstract)

\* for child_div in div.find_all('div'): the head names the section and is
\* decomposed, the child div is handed to process_paragraph
RECURSIVE ChildDivLoop(_, _, _, _)
ChildDivLoop(st, child_divs, section_type, bracket_style) ==
    IF Len(child_divs) = 0 \/ st.raised # "" THEN st
    ELSE LET child_div == Head(child_divs)
             head      == FirstBelow(st.nodes, child_div, "head")
             section   == IF head # 0
                          THEN << <<st.nodes[head].n, Strip(st.nodes[head].text)>> >>
                          ELSE << <<NoneVal, section_type>> >>
             headless  == IF head # 0 THEN [st EXCEPT !.nodes[head].gone = TRUE] ELSE st
         IN  IF HasText(headless.nodes, child_div)
             THEN ChildDivLoop(ProcessParagraphAt(headless, child_div, section, bracket_style),
                               Tail(child_divs), section_type, bracket_style)
             ELSE ChildDivLoop(headless, Tail(child_divs), section_type, bracket_style)

\* for div in sp.back.find_all('div')
RECURSIVE BackDivLoop(_, _, _)
BackDivLoop(st, divs, bracket_style) ==
    IF Len(divs) = 0 \/ st.raised # "" THEN st
    ELSE BackDivLoop(ChildDivLoop(st, FindAllBelow(st.nodes, Head(divs), "div"),
                                  st.nodes[Head(divs)].type, bracket_style),
                     Tail(divs), bracket_style)

\* extract_back_matter_from_tei_xml
extract_back_matter_from_tei_xml(back, bracket_style) ==
    IF Len(back) = 0 THEN NewWalk(back)
    ELSE BackDivLoop(NewWalk(back), FindAllBelow(back, 0, "div"), bracket_style)

(***************************************************************************)
(* The documents converted.                                                *)
(***************************************************************************)
\* the <ref> elements of the documents: [1], Sm and [2, 3]
SampleRefs == <<
    Element("ref", "bibr", <<"#", "b", "0">>, <<"[", "1", "]">>),
    Element("ref", "bibr", <<"#", "b", "0">>, <<"S", "m">>),
    Element("ref", "bibr", <<"#", "b", "1">>, <<"[", "2", ",", " ", "3", "]">>) >>

\* "see [1] a Sm." for els = <<1, 2>>
CitingParagraph(els) == BuildParagraph(SampleRefs, els, [k \in 1..(Len(els) - 1) |-> 3])

PlainParagraph == <<NavigableString(<<"t", "e", "x", "t">>)>>

\* the divs before the last one of a body: each without head, with one paragraph
\* of two citations [1]
MaxFillers == 2

\* n such divs after the first nodes of a body
RECURSIVE Fillers(_, _)
Fillers(nodes, n) ==
    IF n = 0 THEN nodes
    ELSE Fillers(nodes \o <<Div(0, <<>>), PNode(Len(nodes) + 1, CitingParagraph(<<1, 1>>))>>,
                 n - 1)

\* the citations of a body: none; [1]; five [1]; six [1]; five [1] and Sm; five
\* [1] and [2, 3]
BodyCitations ==
    { [fillers |-> 0, paragraph |-> PlainParagraph],
      [fillers |-> 0, paragraph |-> CitingParagraph(<<1>>)],
      [fillers |-> MaxFillers, paragraph |-> CitingParagraph(<<1>>)],
      [fillers |-> MaxFillers, paragraph |-> CitingParagraph(<<1, 1>>)],
      [fillers |-> MaxFillers, paragraph |-> CitingParagraph(<<1, 2>>)],
      [fillers |-> MaxFillers, paragraph |-> CitingParagraph(<<1, 3>>)] }

Title(c) == <<c>>

\* where the last paragraph of a body is: in a div without head; in a div with
\* head; in a div without head after one with head; in a div with head in a div
\* with head; in a div in a div, no head; in a div with head in a div without;
\* outside any div
BodyShapes(c) ==
    { <<Div(0, <<>>), PNode(1, c)>>,
      <<Div(0, <<>>), HeadNode(1, <<"1">>, Title("A")), PNode(1, c)>>,
      <<Div(0, <<>>), HeadNode(1, <<"1">>, Title("A")), PNode(1, PlainParagraph),
        Div(0, <<>>), PNode(4, c)>>,
      <<Div(0, <<>>), HeadNode(1, <<"1">>, Title("A")), PNode(1, PlainParagraph),
        Div(1, <<>>), HeadNode(4, NoneVal, Title("B")), PNode(4, c)>>,
      <<Div(0, <<>>), Div(1, <<>>), PNode(2, c)>>,
      <<Div(0, <<>>), Div(1, <<>>), HeadNode(2, NoneVal, Title("B")), PNode(2, c)>>,
      <<PNode(0, c)>> }

TeiBodies ==
    UNION {{Fillers(shape, c.fillers) : shape \in BodyShapes(c.paragraph)} :
           c \in BodyCitations}

\* the abstracts: none; a paragraph in a div; a paragraph outside any div; a
\* paragraph with a citation in a div in a div
Abstracts ==
    { <<>>,
      <<Div(0, <<>>), PNode(1, PlainParagraph)>>,
      <<PNode(0, CitingParagraph(<<1>>))>>,
      <<Div(0, <<>>), Div(1, <<>>), PNode(2, CitingParagraph(<<1>>))>> }

Acknowledgement == <<"a", "c", "k">>

\* the back matters: none; a div with head in a div with type, as Grobid writes
\* them; a paragraph in a div with type only; a div in a div in a div
Backs ==
    { <<>>,
      <<Div(0, Acknowledgement), Div(1, <<>>), HeadNode(2, NoneVal, Title("K")),
        PNode(2, PlainParagraph)>>,
      <<Div(0, Acknowledgement), PNode(1, PlainParagraph)>>,
      <<Div(0, Acknowledgement), Div(1, <<>>), Div(2, <<>>), PNode(3, PlainParagraph)>> }

\* the statements of convert_tei_xml_soup_to_s2orc_json from the bracket_style style
\* check on
TeiSteps == <<"bracket_style", "abstract", "body", "back", "return">>

InitTeiDocument ==
    /\ IdleParagraph
    /\ IdlePaper
    /\ IdleGrobid
    /\ IdleDocument
    /\ IdleEngine
    /\ IdleId
    /\ IdleSections
    /\ \E abstract \in Abstracts, body \in TeiBodies, back \in Backs :
           soup = [kind |-> "tei",
                   given |-> [abstract |-> abstract, body |-> body, back |-> back],
                   abstract |-> abstract, body |-> body, back |-> back]
    /\ tei_step = 1
    /\ is_bracket_style = FALSE
    /\ entries = [abstract |-> <<>>, body |-> <<>>, back |-> <<>>]
    /\ tei_raised = ""

Converting == soup.kind = "tei" /\ tei_raised = "" /\ tei_step <= Len(TeiSteps)

\* is_bracket_style = check_if_citations_are_bracket_style(soup)
CheckBracketStyle ==
    /\ Converting
    /\ TeiSteps[tei_step] = "bracket_style"
    /\ is_bracket_style' = check_if_citations_are_bracket_style(soup.body)
    /\ tei_step' = tei_step + 1
    /\ UNCHANGED <<soup, entries, tei_raised, paragraph_vars, paper_vars, grobid_vars,
                   document_vars, engine_vars, id_vars,
                   section_vars>>

\* what a walk leaves: the paragraphs made and, unless an exception ended it, the
\* part decomposed
Walked(part, walk) ==
    /\ entries' = [entries EXCEPT ![part] = walk.chunks]
    /\ tei_raised' = walk.raised
    /\ soup' = [soup EXCEPT ![part] = IF walk.raised = "" THEN <<>> ELSE walk.nodes]
    /\ tei_step' = tei_step + 1
    /\ UNCHANGED <<is_bracket_style, paragraph_vars, paper_vars, grobid_vars,
                   document_vars, engine_vars, id_vars,
                   section_vars>>

\* abstract_entries = extract_abstract_from_tei_xml(soup, ...)
ExtractAbstract ==
    /\ Converting
    /\ TeiSteps[tei_step] = "abstract"
    /\ Walked("abstract", extract_abstract_from_tei_xml(soup.abstract, is_bracket_style))

\* body_entries = extract_body_text_from_tei_xml(soup, ...)
ExtractBodyText ==
    /\ Converting
    /\ TeiSteps[tei_step] = "body"
    /\ Walked("body", extract_body_text_from_tei_xml(soup.body, is_bracket_style))

\* back_matter = extract_back_matter_from_tei_xml(soup, ...)
ExtractBackMatter ==
    /\ Converting
    /\ TeiSteps[tei_step] = "back"
    /\ Walked("back", extract_back_matter_from_tei_xml(soup.back, is_bracket_style))

\* return Paper(...)
ReturnTeiPaper ==
    /\ Converting
    /\ TeiSteps[tei_step] = "return"
    /\ tei_step' = tei_step + 1
    /\ UNCHANGED <<soup, is_bracket_style, entries, tei_raised, paragraph_vars,
                   paper_vars, grobid_vars, document_vars, engine_vars, id_vars,
                   section_vars>>

NextTeiDocument ==
    \/ CheckBracketStyle
    \/ ExtractAbstract
    \/ ExtractBodyText
    \/ ExtractBackMatter
    \/ ReturnTeiPaper

SpecTeiDocument == InitTeiDocument /\ [][NextTeiDocument]_vars

(***************************************************************************)
(* C22: the bracket_style style decision.                                        *)
(***************************************************************************)
\* the sampled citation surface forms of the document that match the pattern
MatchingSamples ==
    BracketStyleSum(CiteStrings(soup.given.body, FindAllBelow(soup.given.body, 0, "div")))

Classified == soup.kind = "tei" /\ tei_step > 1

\* C22 as stated: the document is declared bracket_style-style when at least 5 of the
\* sampled citation surface forms match the pattern, and never when fewer match.
C22_FiveMatchesQualify ==
    Classified => (is_bracket_style <=> MatchingSamples >= 5)

\* C22 as amended: the document is declared bracket_style-style when more than
\* BRACKET_STYLE_THRESHOLD = 5 of the sampled surface forms match (6 is the
\* least number that qualifies), and never when 5 or fewer match.
C22_MoreThanFiveMatchesQualify ==
    Classified => (is_bracket_style <=> MatchingSamples > BRACKET_STYLE_THRESHOLD)

\* six matching samples: the document is bracket-style
C22_Witness ==
    Classified /\ MatchingSamples = BRACKET_STYLE_THRESHOLD + 1 /\ is_bracket_style

\* five matching samples: the document is not bracket-style
C22_FiveMatchesRejectedReached ==
    Classified /\ MatchingSamples = BRACKET_STYLE_THRESHOLD /\ ~is_bracket_style

(***************************************************************************)
(* C23: one output paragraph for each paragraph of the document.           *)
(***************************************************************************)
\* the part has been walked
Extracted(part) ==
    /\ soup.kind = "tei"
    /\ \E k \in 1..Len(TeiSteps) : TeiSteps[k] = part /\ tei_step > k

\* the paragraph elements of the part as it was given
GivenParagraphs(part) ==
    {i \in 1..Len(soup.given[part]) : soup.given[part][i].name = "p"}

\* the output paragraphs made of paragraph element i of the part
MadeOf(part, i) == {k \in 1..Len(entries[part]) : i \in entries[part][k].paras}

\* C23: in one conversion of a TEI document process_paragraph is applied exactly
\* once to each paragraph element, whatever the nesting of the divs of the
\* abstract, the body and the back matter: the walk of a part ends without an
\* exception and each paragraph of the part has made exactly one output paragraph.
C23_EachParagraphProcessedOnce ==
    \A part \in {"abstract", "body", "back"} :
        Extracted(part) /\ tei_raised = ""
            => \A i \in GivenParagraphs(part) : Cardinality(MadeOf(part, i)) = 1

\* a body of divs that are not nested: each paragraph is processed once
C23_FlatBodyOnceReached ==
    /\ Extracted("body") /\ tei_raised = ""
    /\ Len(FindAllBelow(soup.given.body, 0, "div")) = 2
    /\ \A i \in GivenParagraphs("body") : Cardinality(MadeOf("body", i)) = 1

\* a paragraph in a div in a div of the body: processed for the outer div and
\* again for the inner one
C23_NestedBodyTwiceReached ==
    /\ Extracted("body") /\ tei_raised = ""
    /\ \E i \in GivenParagraphs("body") : Cardinality(MadeOf("body", i)) = 2

\* the second processing finds the tokens the first one left in the paragraph
C23_NestedBodyKeyErrorReached ==
    /\ Extracted("body") /\ ~Extracted("back") /\ tei_raised = "KeyError"

\* a div with head in a div without: the head is gone when decompose() is called
C23_HeadlessOuterDivRaisesReached ==
    /\ Extracted("body") /\ ~Extracted("back") /\ tei_raised = "AttributeError"

\* a paragraph in a div of the back matter that has no div of its own: not processed
C23_BackParagraphSkippedReached ==
    /\ Extracted("back") /\ tei_raised = ""
    /\ \E i \in GivenParagraphs("back") : MadeOf("back", i) = {}

\* a paragraph with a citation in a div in a div of the abstract: processed for
\* the outer div, and the tokens left are found when it is processed for the inner
C23_NestedAbstractKeyErrorReached ==
    /\ Extracted("abstract") /\ ~Extracted("body") /\ tei_raised = "KeyError"
    /\ Len(entries.abstract) = 1

(***************************************************************************)
(* C26: which offsets a substitution changes.                              *)
(***************************************************************************)
\* the signed length delta of substituting the token of span e
LengthDelta(e) == Len(e.surface) - (e.end - e.start)

\* the sum of the length deltas of the first n spans that end at or before pos
RECURSIVE DeltaOfSpansEndedBy(_, _, _)
DeltaOfSpansEndedBy(spans, n, pos) ==
    IF n = 0 THEN 0
    ELSE DeltaOfSpansEndedBy(spans, n - 1, pos)
         + (IF spans[n].end <= pos THEN LengthDelta(spans[n]) ELSE 0)

\* C26: substituting a token T changes the offsets only of the spans that start at
\* or after T's end, all by the length delta of T: the start of every returned span
\* has moved by the deltas of the spans that end at or before its old start, and by
\* nothing else.
C26_OnlyLaterSpansShifted ==
    (subbed.called /\ subbed.ok) =>
        LET sorted == SortByStart(subbed.given)
        IN  \A i \in 1..Len(sorted) :
                subbed.spans[i].start - sorted[i].start
                    = DeltaOfSpansEndedBy(sorted, Len(sorted), sorted[i].start)

\* the same for spans that do not overlap
C26_OnlyLaterSpansShiftedWhenApart ==
    (subbed.called /\ subbed.ok /\ NonOverlapping(subbed.given)) =>
        LET sorted == SortByStart(subbed.given)
        IN  \A i \in 1..Len(sorted) :
                subbed.spans[i].start - sorted[i].start
                    = DeltaOfSpansEndedBy(sorted, Len(sorted), sorted[i].start)

\* (0, 2) -> "[1]" and (1, 3) -> "x": the second span starts before the end of the
\* first and its start is moved by the delta of the first all the same
C26_OverlappedSpanShiftedReached ==
    /\ subbed.called /\ subbed.ok
    /\ full_string = <<"a", "b", "c", "d", "e", "f", "g">>
    /\ subbed.given = << EngineSpan(full_string, <<0, 2>>, <<"[", "1", "]">>),
                         EngineSpan(full_string, <<1, 3>>, <<"x">>) >>
    /\ subbed.spans[2].start = 2

\* three spans apart, the first made longer and the second shorter: the third has
\* moved by both deltas, the second by the first, the first not at all
C26_ApartSpansShiftedReached ==
    /\ subbed.called /\ subbed.ok
    /\ full_string = <<"a", "b", "c", "d", "e", "f", "g">>
    /\ subbed.given = << EngineSpan(full_string, <<0, 2>>, <<"[", "1", "]">>),
                         EngineSpan(full_string, <<2, 4>>, <<>>),
                         EngineSpan(full_string, <<5, 7>>, <<"x">>) >>
    /\ subbed.spans[1].start = 0
    /\ subbed.spans[2].start = 3
    /\ subbed.spans[3].start = 4

(***************************************************************************)
(* The identifier normalizers on their own: one of them is called once     *)
(* with an identifier.                                                     *)
(***************************************************************************)
\* the longest identifier made of IdChars
MaxIdLen == 3

IdChars == {"b", "i", "d", "c", "3", "_", "#"}

\* the identifiers the two producers write, and longer ones that hold their prefix
\* a second time
WrittenIds ==
    { <<"t", "a", "b", "_", "0">>, <<"f", "i", "g", "_", "1">>,
      <<"f", "o", "r", "m", "u", "l", "a", "_", "2">>, <<"f", "o", "o", "t", "_", "4">>,
      <<"b", "i", "d", "1", "2">>, <<"c", "i", "d", "1", "2">>, <<"u", "i", "d", "1", "2">>,
      <<"t", "a", "b", "_", "0", "t", "a", "b">>, <<"f", "i", "g", "_", "f", "i", "g">>,
      <<"c", "i", "d", "3", "c", "i", "d">> }

Ids ==
    WrittenIds \cup UNION {[1..n -> IdChars] : n \in 1..MaxIdLen}

InitNormalize ==
    /\ IdleParagraph
    /\ IdlePaper
    /\ IdleGrobid
    /\ IdleDocument
    /\ IdleEngine
    /\ IdleTei
    /\ IdleSections
    /\ given_id \in Ids
    /\ normalizer \in {"grobid", "latex"}
    /\ id_norm = NoneVal

\* normalize_grobid_id(grobid_id)
NormalizeGrobidId ==
    /\ normalizer = "grobid"
    /\ id_norm = NoneVal
    /\ id_norm' = normalize_grobid_id(given_id)
    /\ UNCHANGED <<given_id, normalizer, paragraph_vars, paper_vars, grobid_vars,
                   document_vars, engine_vars, tei_vars, section_vars>>

\* normalize_latex_id(latex_id)
NormalizeLatexId ==
    /\ normalizer = "latex"
    /\ id_norm = NoneVal
    /\ id_norm' = normalize_latex_id(given_id)
    /\ UNCHANGED <<given_id, normalizer, paragraph_vars, paper_vars, grobid_vars,
                   document_vars, engine_vars, tei_vars, section_vars>>

NextNormalize ==
    \/ NormalizeGrobidId
    \/ NormalizeLatexId

SpecNormalize == InitNormalize /\ [][NextNormalize]_vars

(***************************************************************************)
(* C27: only the leading prefix of an identifier is replaced.              *)
(***************************************************************************)
\* the identifier in upper case without the separators
RECURSIVE Folded(_, _)
Folded(t, separators) ==
    IF Len(t) = 0 THEN <<>>
    ELSE IF t[1] \in separators THEN Folded(Tail(t), separators)
    ELSE <<UpperChar(t[1])>> \o Folded(Tail(t), separators)

\* the first (prefix, family) pair whose prefix the identifier starts with takes
\* the place of that prefix; what follows the prefix is kept as it is
RECURSIVE LeadingPrefixReplaced(_, _)
LeadingPrefixReplaced(t, families) ==
    IF Len(families) = 0 THEN t
    ELSE IF StartsWith(t, families[1][1])
    THEN families[1][2] \o From(t, Len(families[1][1]))
    ELSE LeadingPrefixReplaced(t, Tail(families))

GrobidFamilies ==
    << <<<<"B">>, BIBREF>>, <<<<"T", "A", "B">>, TABREF>>, <<<<"F", "I", "G">>, FIGREF>>,
       <<<<"F", "O", "R", "M", "U", "L", "A">>, EQREF>> >>

LatexFamilies ==
    << <<<<"B", "I", "D">>, BIBREF>>, <<<<"C", "I", "D">>, SECREF>>,
       <<<<"F", "O", "R", "M", "U", "L", "A">>, EQREF>> >>

Normalized == id_norm # NoneVal

\* what C27 says the normalizer returns for given_id
LeadingPrefixOnly ==
    IF normalizer = "grobid"
    THEN LeadingPrefixReplaced(Folded(given_id, {"_", "#"}), GrobidFamilies)
    ELSE LeadingPrefixReplaced(Folded(given_id, {"_"}), LatexFamilies)

\* C27: a normalizer strips the separators, folds the case and replaces only the
\* leading prefix of the identifier by the prefix of its family; the rest of the
\* identifier is unchanged, and no other occurrence of the prefix letters in it is
\* rewritten.
C27_OnlyLeadingPrefixReplaced == Normalized => id_norm = LeadingPrefixOnly

\* the number of places at which p occurs in t
Occurrences(t, p) == Cardinality({i \in 0..(Len(t) - Len(p)) : StartsWith(From(t, i), p)})

\* the prefix the folded identifier starts with (<<>>: none)
RECURSIVE LeadingPrefix(_, _)
LeadingPrefix(t, families) ==
    IF Len(families) = 0 THEN <<>>
    ELSE IF StartsWith(t, families[1][1]) THEN families[1][1]
    ELSE LeadingPrefix(t, Tail(families))

FoldedId == Folded(given_id, IF normalizer = "grobid" THEN {"_", "#"} ELSE {"_"})

PrefixOfId ==
    LeadingPrefix(FoldedId, IF normalizer = "grobid" THEN GrobidFamilies ELSE LatexFamilies)

\* the same for identifiers that hold their prefix once
C27_OnlyPrefixReplacedWhenItOccursOnce ==
    (Normalized /\ (PrefixOfId = <<>> \/ Occurrences(FoldedId, PrefixOfId) = 1))
        => id_norm = LeadingPrefixOnly

\* tab_0 -> TABREF0
C27_TableIdReached ==
    /\ Normalized /\ normalizer = "grobid"
    /\ given_id = <<"t", "a", "b", "_", "0">>
    /\ id_norm = <<"T", "A", "B", "R", "E", "F", "0">>

\* #b3 -> BIBREF3
C27_TargetReached ==
    /\ Normalized /\ normalizer = "grobid"
    /\ given_id = <<"#", "b", "3">>
    /\ id_norm = <<"B", "I", "B", "R", "E", "F", "3">>

\* b3b -> BIBREF3BIBREF
C27_SecondOccurrenceReplacedReached ==
    /\ Normalized /\ normalizer = "grobid"
    /\ given_id = <<"b", "3", "b">>
    /\ id_norm = BIBREF \o <<"3">> \o BIBREF

\* cid3cid -> SECREF3SECREF
C27_LatexSecondOccurrenceReplacedReached ==
    /\ Normalized /\ normalizer = "latex"
    /\ given_id = <<"c", "i", "d", "3", "c", "i", "d">>
    /\ id_norm = SECREF \o <<"3">> \o SECREF

(***************************************************************************)
(* The section registry of the LaTeX converter.  The document is a table   *)
(* of div and p elements (parent 0: a child of the root); the registry is  *)
(* the dict of get_sections_from_div as the sequence of its entries, each  *)
(* with its key.                                                           *)
(***************************************************************************)
TexDiv(name, parent, id, num, rend, head) ==
    [name |-> name, parent |-> parent, id |-> id, id_text |-> num, rend |-> rend,
     head |-> head, hi |-> FALSE, hi_id_text |-> NoneVal, hi_text |-> <<>>,
     s2orc_id |-> NoneVal]

\* a paragraph; hi: it has a <hi> child, with that id-text and text
TexP(parent, id, num, hi, hi_id_text, hi_text) ==
    [name |-> "p", parent |-> parent, id |-> id, id_text |-> num, rend |-> "",
     head |-> NoneVal, hi |-> hi, hi_id_text |-> hi_id_text, hi_text |-> hi_text,
     s2orc_id |-> NoneVal]

\* sub_el.name.startswith('div')
DivNames == {"div0", "div1", "div2"}

\* el.find_all(recursive=False)
SubElements(nodes, el) == SelectSeq([i \in 1..Len(nodes) |-> i], LAMBDA i : nodes[i].parent = el)

\* 'cid' in el.get('id')
Within(word, t) == \E i \in 0..(Len(t) - Len(word)) : StartsWith(From(t, i), word)

\* sec_map_dict[key] = entry
Put(map, entry) ==
    IF \E i \in 1..Len(map) : map[i].key = entry.key
    THEN [i \in 1..Len(map) |-> IF map[i].key = entry.key THEN entry ELSE map[i]]
    ELSE Append(map, entry)

\* dict.update(other)
RECURSIVE Update(_, _)
Update(map, other) ==
    IF Len(other) = 0 THEN map ELSE Update(Put(map, Head(other)), Tail(other))

\* k.strip('SECREF')
StripSecref(k) ==
    StripRight(StripLeft(k, {"S", "E", "C", "R", "F"}), {"S", "E", "C", "R", "F"})

\* [int(k.strip('SECREF')) for k in keys if k and k.strip('SECREF').isdigit()]
SecKeys(map) ==
    {ToInt(StripSecref(map[i].key)) :
        i \in {j \in 1..Len(map) : map[j].key # NoneVal /\ IsNumeral(StripSecref(map[j].key))}}

\* max(sec_keys + [faux_max])
MaxKey(sec_keys, faux_max) ==
    CHOOSE m \in sec_keys \cup {faux_max} : \A k \in sec_keys \cup {faux_max} : k <= m

\* get_section_name(el) for a div with a head
get_section_name(e) == e.head

\* id.replace('cid', 'SECREF') / id.replace('uid', 'SECREFU')
SectionRefId(id) ==
    IF Within(cid, id) THEN Replace(id, cid, SECREF) ELSE Replace(id, uid, SECREFU)

UnknownIdType(id) == id # <<>> /\ ~Within(cid, id) /\ ~Within(uid, id)

RECURSIVE get_sections_from_div(_, _, _, _)
RECURSIVE SubElLoop(_, _, _, _)

\* "process sub elements"; st = [map, nodes, raised, faux_max]
SubElLoop(st, sub_els, el_ref_id, parent) ==
    IF Len(sub_els) = 0 \/ st.raised # "" THEN st
    ELSE LET s      == Head(sub_els)
             sub_el == st.nodes[s]
             above  == IF el_ref_id # NoneVal THEN el_ref_id ELSE parent
         IN  IF sub_el.name \in DivNames
             THEN LET faux_max == MaxKey(SecKeys(st.map), st.faux_max) + 1
                      got      == get_sections_from_div(st.nodes, s, above, faux_max)
                  IN  SubElLoop([map |-> Update(st.map, got.map), nodes |-> got.nodes,
                                 raised |-> got.raised, faux_max |-> faux_max],
                                Tail(sub_els), el_ref_id, parent)
             ELSE IF sub_el.name = "p" /\ sub_el.id # <<>>
             THEN IF ~sub_el.hi    \* sub_el.hi.get(...) on None
                  THEN [st EXCEPT !.raised = "AttributeError"]
                  ELSE IF UnknownIdType(sub_el.id)
                  THEN [st EXCEPT !.raised = "NotImplementedError"]
                  ELSE SubElLoop(
                           [st EXCEPT
                              !.nodes[s].s2orc_id = SectionRefId(sub_el.id),
                              !.map = Put(@, [key    |-> el_ref_id,
                                              num    |-> IF sub_el.id_text # NoneVal
                                                         THEN sub_el.id_text
                                                         ELSE sub_el.hi_id_text,
                                              text   |-> sub_el.hi_text,
                                              ref_id |-> SectionRefId(sub_el.id),
                                              parent |-> above])],
                           Tail(sub_els), el_ref_id, parent)
             ELSE SubElLoop(st, Tail(sub_els), el_ref_id, parent)

get_sections_from_div(nodes, el, parent, faux_max) ==
    LET e         == nodes[el]
        el_ref_id == IF e.id # <<>> THEN SectionRefId(e.id)
                     ELSE IF e.rend = "nonumber" THEN SECREF \o DigitStr(faux_max)
                     ELSE NoneVal
        own       == IF el_ref_id = NoneVal THEN <<>>
                     ELSE <<[key    |-> el_ref_id,
                             num    |-> IF e.id # <<>> THEN e.id_text ELSE NoneVal,
                             text   |-> get_section_name(e),
                             ref_id |-> el_ref_id,
                             parent |-> parent]>>
        marked    == IF el_ref_id = NoneVal THEN nodes
                     ELSE [nodes EXCEPT ![el].s2orc_id = el_ref_id]
    IN  IF UnknownIdType(e.id)
        THEN [map |-> <<>>, nodes |-> nodes, raised |-> "NotImplementedError",
              faux_max |-> faux_max]
        ELSE SubElLoop([map |-> own, nodes |-> marked, raised |-> "",
                        faux_max |-> faux_max],
                       SubElements(nodes, el), el_ref_id, parent)

\* for div0 in sp.find_all('div0'); st = [map, nodes, raised, max_above_1000]
RECURSIVE Div0Loop(_, _)
Div0Loop(st, div0s) ==
    IF Len(div0s) = 0 \/ st.raised # "" THEN st
    ELSE LET got     == get_sections_from_div(st.nodes, Head(div0s), NoneVal,
                                              st.max_above_1000 + 1)
             updated == Update(st.map, got.map)
         IN  Div0Loop([map |-> updated, nodes |-> got.nodes, raised |-> got.raised,
                       max_above_1000 |->
                           MaxKey(SecKeys(updated), st.max_above_1000) + 1],
                      Tail(div0s))

process_sections_from_text(nodes) ==
    Div0Loop([map |-> <<>>, nodes |-> nodes, raised |-> "", max_above_1000 |-> 999],
             SelectSeq([i \in 1..Len(nodes) |-> i], LAMBDA i : nodes[i].name = "div0"))

InMap(ref_map, sec_id) == \E i \in 1..Len(ref_map) : ref_map[i].key = sec_id

Entry(ref_map, sec_id) == ref_map[CHOOSE i \in 1..Len(ref_map) : ref_map[i].key = sec_id]

\* build_section_list(sec_id, ref_map): [raised, list]; a walk longer than the
\* registry goes round a cycle of parents and ends with RecursionError
RECURSIVE BuildSectionList(_, _, _)
BuildSectionList(sec_id, ref_map, depth) ==
    IF sec_id = NoneVal \/ sec_id = <<>> THEN [raised |-> "", list |-> <<>>]
    ELSE IF ~InMap(ref_map, sec_id) THEN [raised |-> "", list |-> <<>>]
    ELSE LET sec_entry == << <<Entry(ref_map, sec_id).num, Entry(ref_map, sec_id).text>> >>
         IN  IF Entry(ref_map, sec_id).parent = sec_id
             THEN [raised |-> "", list |-> sec_entry]
             ELSE IF depth > Len(ref_map)
             THEN [raised |-> "RecursionError", list |-> <<>>]
             ELSE LET above == BuildSectionList(Entry(ref_map, sec_id).parent, ref_map,
                                                depth + 1)
                  IN  [raised |-> above.raised,
                       list |-> IF above.raised # "" THEN <<>> ELSE above.list \o sec_entry]

build_section_list(sec_id, ref_map) == BuildSectionList(sec_id, ref_map, 1)

(***************************************************************************)
(* The documents: div0 > div1 > div2, a paragraph in div1 in front of      *)
(* div2, and a second div0.                                                *)
(***************************************************************************)
\* a div without id, with id cid1, cid2 or uid1, or without section number
DivKinds == {"plain", "cid1", "cid2", "uid1", "nonumber"}

KindId(kind) ==
    IF kind = "cid1" THEN cid \o <<"1">>
    ELSE IF kind = "cid2" THEN cid \o <<"2">>
    ELSE IF kind = "uid1" THEN uid \o <<"1">>
    ELSE <<>>

KindNumber(kind) ==
    IF kind = "cid1" THEN <<"1">>
    ELSE IF kind = "cid2" THEN <<"1", ".", "1">>
    ELSE NoneVal

SectionTitles == <<<<"A">>, <<"B">>, <<"C">>, <<"D">>>>

DivOf(level, parent, kind) ==
    TexDiv(<<"div0", "div1", "div2", "div3">>[level], parent, KindId(kind),
           KindNumber(kind), IF kind = "nonumber" THEN "nonumber" ELSE "",
           SectionTitles[level])

\* the paragraph of div1: none; without id; with id uid3 and a <hi> title; with id
\* cid3, its own id-text and a <hi>; with id uid3 and no <hi>
ParagraphKinds == {"none", "plain", "uid3", "cid3", "nohi"}

ParagraphOf(parent, kind) ==
    IF kind = "none" THEN <<>>
    ELSE IF kind = "plain" THEN <<TexP(parent, <<>>, NoneVal, FALSE, NoneVal, <<>>)>>
    ELSE IF kind = "uid3"
    THEN <<TexP(parent, uid \o <<"3">>, NoneVal, TRUE, <<"3">>, <<"T">>)>>
    ELSE IF kind = "cid3"
    THEN <<TexP(parent, cid \o <<"3">>, <<"2">>, TRUE, NoneVal, <<"T">>)>>
    ELSE <<TexP(parent, uid \o <<"3">>, <<"3">>, FALSE, NoneVal, <<>>)>>

\* div0 > div1 > [p, div2] and then the second div0 ("none": absent)
SectionDocument(kinds, para, second) ==
    LET d0 == <<DivOf(1, 0, kinds[1])>>
        d1 == d0 \o <<DivOf(2, 1, kinds[2])>> \o ParagraphOf(2, para)
        d2 == d1 \o <<DivOf(3, 2, kinds[3])>>
    IN  d2 \o (IF second = "none" THEN <<>> ELSE <<DivOf(1, 0, second)>>)

SectionDocuments ==
    {SectionDocument(kinds, para, second) :
        kinds \in [1..3 -> DivKinds], para \in ParagraphKinds,
        second \in {"none", "nonumber", "cid1"}}

InitSections ==
    /\ IdleParagraph
    /\ IdlePaper
    /\ IdleGrobid
    /\ IdleDocument
    /\ IdleEngine
    /\ IdleTei
    /\ IdleId
    /\ tex_divs \in SectionDocuments
    /\ section_map = <<>>
    /\ sec_step = 1
    /\ seclist = [called |-> FALSE]
    /\ sec_raised = ""

\* section_map = process_sections_from_text(sp)
ProcessSectionsFromText ==
    /\ Len(tex_divs) > 0
    /\ sec_step = 1
    /\ LET made == process_sections_from_text(tex_divs)
       IN  /\ section_map' = made.map
           /\ tex_divs' = made.nodes
           /\ sec_raised' = made.raised
    /\ sec_step' = 2
    /\ UNCHANGED <<seclist, paragraph_vars, paper_vars, grobid_vars, document_vars,
                   engine_vars, tei_vars, id_vars>>

\* the ids build_section_list is asked for: the keys of the registry, the
\* s2orc_id of the elements, None and an id that is nowhere
SectionIds ==
    {section_map[i].key : i \in 1..Len(section_map)}
    \cup {tex_divs[i].s2orc_id : i \in 1..Len(tex_divs)}
    \cup {NoneVal, SECREF \o <<"9">>}

\* get_seclist_for_el: build_section_list(sec_id, ref_map)
BuildSectionListFor ==
    /\ sec_step = 2
    /\ sec_raised = ""
    /\ ~seclist.called
    /\ \E sec_id \in SectionIds :
           seclist' = [called |-> TRUE, sec_id |-> sec_id,
                       raised |-> build_section_list(sec_id, section_map).raised,
                       list |-> build_section_list(sec_id, section_map).list]
    /\ UNCHANGED <<tex_divs, section_map, sec_step, sec_raised, paragraph_vars,
                   paper_vars, grobid_vars, document_vars, engine_vars, tei_vars,
                   id_vars>>

NextSections ==
    \/ ProcessSectionsFromText
    \/ BuildSectionListFor

SpecSections == InitSections /\ [][NextSections]_vars

(***************************************************************************)
(* C28: the section path of build_section_list.                            *)
(***************************************************************************)
\* the (number, title) pair of a div or an identified paragraph of the document
SectionPair(e) ==
    IF e.name = "p"
    THEN <<IF e.id_text # NoneVal THEN e.id_text ELSE e.hi_id_text, e.hi_text>>
    ELSE <<IF e.id # <<>> THEN e.id_text ELSE NoneVal, e.head>>

\* the pairs of the sections around element x, from the root down to x itself
RECURSIVE PathTo(_, _)
PathTo(nodes, x) ==
    IF x = 0 THEN <<>>
    ELSE PathTo(nodes, nodes[x].parent)
         \o (IF nodes[x].s2orc_id # NoneVal THEN <<SectionPair(nodes[x])>> ELSE <<>>)

Asked == seclist.called

RegisteredId(sec_id) == sec_id # NoneVal /\ InMap(section_map, sec_id)

\* C28: for every registry made by process_sections_from_text and every section
\* id, build_section_list terminates; for a registered id it returns the (number,
\* title) pairs of the ancestors of the section, root first, ending with the
\* section itself, and for a missing or unregistered id the empty list.
C28_PathFromRootToSection ==
    Asked =>
        /\ seclist.raised = ""
        /\ IF RegisteredId(seclist.sec_id)
           THEN \E x \in 1..Len(tex_divs) :
                    /\ tex_divs[x].s2orc_id = seclist.sec_id
                    /\ seclist.list = PathTo(tex_divs, x)
           ELSE seclist.list = <<>>

\* no paragraph of the document has an id
NoIdentifiedParagraph ==
    \A x \in 1..Len(tex_divs) : tex_divs[x].name = "p" => tex_divs[x].s2orc_id = NoneVal

\* no two divs of the document have the same id
DistinctSectionIds ==
    \A x, y \in 1..Len(tex_divs) :
        (x # y /\ tex_divs[x].s2orc_id # NoneVal)
            => tex_divs[x].s2orc_id # tex_divs[y].s2orc_id

\* the same for documents whose ids are distinct and whose paragraphs have none
C28_PathFromRootWhenDivsOnly ==
    (Asked /\ NoIdentifiedParagraph /\ DistinctSectionIds) =>
        /\ seclist.raised = ""
        /\ IF RegisteredId(seclist.sec_id)
           THEN \E x \in 1..Len(tex_divs) :
                    /\ tex_divs[x].s2orc_id = seclist.sec_id
                    /\ seclist.list = PathTo(tex_divs, x)
           ELSE seclist.list = <<>>

\* cid1 > cid2 > nonumber: the path of the innermost div has three pairs
C28_ThreeLevelsReached ==
    /\ Asked /\ NoIdentifiedParagraph /\ DistinctSectionIds
    /\ seclist.sec_id = SECREF \o <<"1", "0", "0", "2">>
    /\ seclist.list = << <<<<"1">>, <<"A">>>>, <<<<"1", ".", "1">>, <<"B">>>>,
                         <<NoneVal, <<"C">>>> >>

\* div1 has id cid2 and holds the paragraph uid3: asked for SECREF2, the walk
\* returns the pair of the paragraph alone
C28_ParagraphInPlaceOfSectionReached ==
    /\ Asked
    /\ seclist.sec_id = SECREF \o <<"2">>
    /\ seclist.list = << <<<<"3">>, <<"T">>>> >>
    /\ \E x \in 1..Len(tex_divs) :
           tex_divs[x].s2orc_id = SECREF \o <<"2">> /\ tex_divs[x].name = "div1"

\* cid1 > cid2 > cid1: the parents of the registry make a cycle and the walk does
\* not end
C28_WalkDoesNotEndReached ==
    Asked /\ seclist.raised = "RecursionError"

(***************************************************************************)
(* C29: the keys of the section registry.                                  *)
(***************************************************************************)
Registry == sec_step = 2 /\ sec_raised = ""

\* the element is a paragraph with an id in a div with a section id
IdentifiedInSection(x) ==
    /\ tex_divs[x].name = "p"
    /\ tex_divs[x].s2orc_id # NoneVal
    /\ tex_divs[x].parent # 0
    /\ tex_divs[tex_divs[x].parent].s2orc_id # NoneVal

\* C29: every entry stored in the section registry under key K has K as its
\* ref_id, and registering an identified paragraph inside a div never overwrites
\* or removes the entry of the enclosing div: the entry under the id of the div
\* still has that id and the title of the div.
C29_KeyIsRefId ==
    Registry =>
        /\ \A i \in 1..Len(section_map) : section_map[i].key = section_map[i].ref_id
        /\ \A x \in 1..Len(tex_divs) :
               IdentifiedInSection(x) =>
                   LET K == tex_divs[tex_divs[x].parent].s2orc_id
                   IN  /\ InMap(section_map, K)
                       /\ Entry(section_map, K).ref_id = K
                       /\ Entry(section_map, K).text = tex_divs[tex_divs[x].parent].head

\* the same for documents whose paragraphs have no id
C29_KeyIsRefIdWhenDivsOnly ==
    (Registry /\ NoIdentifiedParagraph) =>
        \A i \in 1..Len(section_map) : section_map[i].key = section_map[i].ref_id

\* the paragraph uid3 of the div cid2 is stored under SECREF2, in place of the div
C29_DivEntryOverwrittenReached ==
    /\ Registry
    /\ \E x \in 1..Len(tex_divs) :
           /\ IdentifiedInSection(x)
           /\ tex_divs[tex_divs[x].parent].s2orc_id = SECREF \o <<"2">>
           /\ Entry(section_map, SECREF \o <<"2">>).ref_id = SECREFU \o <<"3">>
           /\ Entry(section_map, SECREF \o <<"2">>).parent = SECREF \o <<"2">>
           /\ ~InMap(section_map, SECREFU \o <<"3">>)

\* the paragraph of a div without id is stored under the key None
C29_StoredUnderNoneReached ==
    /\ Registry
    /\ InMap(section_map, NoneVal)
    /\ Entry(section_map, NoneVal).ref_id = SECREFU \o <<"3">>

\* divs only: every div with an id or without number has its entry
C29_DivsRegisteredReached ==
    /\ Registry /\ NoIdentifiedParagraph /\ DistinctSectionIds
    /\ Len(section_map) = 4

(***************************************************************************)
(* C30: the identity of a paper after release_json("pdf") and load_s2orc.  *)
(***************************************************************************)
\* the paper that load_s2orc made of a written release_json("pdf")
ReleaseLoaded ==
    /\ origin = "written"
    /\ IsPdfRelease(written)
    /\ loads > 0

\* the metadata of the paper that was released, as the release holds it
ReleasedMetadata == [k \in METADATA_KEYS |-> written.json[k]]

\* C30: for any Paper p, load_s2orc(p.release_json("pdf")) is a Paper with the
\* paper_id, the pdf_hash and the metadata (title, authors, year, venue,
\* identifiers) of p.
C30_ReleaseLoadKeepsIdentity ==
    ReleaseLoaded =>
        /\ paper.raised = ""
        /\ paper.paper_id = written.json.paper_id
        /\ paper.pdf_hash = written.json.pdf_parse._pdf_hash
        /\ MetadataAsJson(paper.metadata) = ReleasedMetadata

\* the paper_id is kept
C30_ReleaseLoadKeepsPaperId ==
    (ReleaseLoaded /\ paper.raised = "") => paper.paper_id = written.json.paper_id

\* a paper with pdf_hash "h" and title "T" comes back with its paper_id, pdf_hash
\* None and the title None
C30_HashAndMetadataLostReached ==
    /\ ReleaseLoaded
    /\ paper.raised = ""
    /\ paper.paper_id = <<"p">>
    /\ written.json.pdf_parse._pdf_hash = <<"h">>
    /\ paper.pdf_hash = NoneVal
    /\ written.json.title = <<"T">>
    /\ paper.metadata.title = NoneVal
    /\ paper.metadata.authors = <<>>
====
